---- MODULE Spec2Model ----
(***************************************************************************)
(* Session manager of the Omi <-> WhatsApp bridge                          *)
(* (src/src/services/whatsapp.ts, src/src/services/saved-contacts.ts).     *)
(*                                                                         *)
(* The state is the module-level maps of whatsapp.ts (sessions,            *)
(* retryState, contactStore, lidToJid, listeners), the sockets the module  *)
(* has created, the timers it has armed, the initSession / logoutSession   *)
(* calls that are suspended at an await, and the per-uid directory on      *)
(* disk.  Every exported operation and every socket event handler is one   *)
(* action; an async function is one action per run-to-completion segment.  *)
(***************************************************************************)
EXTENDS Integers, Sequences, FiniteSets, Bags, TLC

\* ------------------------------------------------------------------------
\* Bounds of the model
\* ------------------------------------------------------------------------
\* Live sockets + suspended initSession calls + armed timers of one uid;
\* the second bound is the one of the specification with the disk writers.
MaxLoad == 2
MaxLoadDisk == 1
\* Archive directories of one uid.
MaxArchives == 1
\* Cap of the observer's count of consecutive retriable disconnects.
MaxConsec == 7
\* logoutSession calls of one uid suspended at the same time.
MaxPendingLogout == 1
\* History callbacks of one uid queued by setImmediate at the same time.
MaxImmediates == 1
\* Entries of one bulk import.
MaxBatch == 2
\* Calls of saveContact behind the saved contacts handed to the matcher.
MaxSaves == 2
\* Async calls of one uid suspended at the same time.
MaxCalls == 1
\* The largest retry budget a caller passes to waitForContacts.
MaxRetries == 2
\* Reminders scheduled in one run.
MaxReminders == 2
\* Intervals of the reminder tick that pass.
MaxClock == 5
\* Invocations of the reminder tick suspended at the same time.
MaxTicks == 2

UIDs == {"u1"}
Callbacks == {"cb1"}
QRCodes == {"qr1", "qr2"}
\* the canonical ids saved contacts are stored under
SavedJids == {"1234567@s.whatsapp.net", "7654321@s.whatsapp.net"}
\* ids as the transport reports them: phone-number JIDs (@s.whatsapp.net),
\* linked ids (@lid), groups (@g.us) and the status broadcast
Jids == {"j1@s.whatsapp.net"}
Lids == {"l1@lid"}
GroupIds == {"g1@g.us"}
Broadcast == "status@broadcast"
Targets == {"jid1"}

\* ------------------------------------------------------------------------
\* Program constants
\* ------------------------------------------------------------------------
MAX_RECONNECT_ATTEMPTS == 5
BASE_BACKOFF_MS == 2000
MAX_BACKOFF_MS == 60000
loggedOut == 401
serverRejected == 405

NON_RETRIABLE_CODES == {loggedOut, serverRejected}
\* the status codes the transport closes with: the two above and a
\* retriable one (428, connection closed)
StatusCodes == NON_RETRIABLE_CODES \cup {428}

None == "none"
NoJid == [user |-> None, device |-> None]
NoSession == [sock |-> "absent", connected |-> FALSE, qr |-> None, userJid |-> NoJid]
NoRetry == [attempts |-> 0, timer |-> "none"]
\* a Map or a JSON object without keys
Empty == [k \in {} |-> None]
Range(f) == {f[k] : k \in DOMAIN f}
\* a file: whether it exists and the JSON value it holds
NoFile == [present |-> FALSE, raw |-> Empty]
\* the table Map.get(uid) finds: absent, or a Map from key to value
NoStore == [present |-> FALSE, entries |-> Empty]
\* the saved-contact table Map.get(uid) finds: absent, or a Map whose
\* entries are kept in insertion order (each entry is stored under its id)
NoSaved == [present |-> FALSE, entries |-> <<>>]
\* a Contact: a field that is not set is None, an empty string is ""
\* the directory observer while no history callback is queued
NoShadow == [on |-> FALSE, store |-> NoStore, lmap |-> NoStore]
NoContact == [id |-> None, name |-> None, notify |-> None, lid |-> None]
NoDir == [exists |-> FALSE, auth |-> FALSE, contacts |-> NoFile, saved |-> NoFile]
NoEvent == [type |-> None, data |-> None]

\* Map.set(k, v) / obj[k] = v
Put(f, k, v) == [x \in DOMAIN f \cup {k} |-> IF x = k THEN v ELSE f[x]]

\* Map.get(k), None for undefined
Get(f, k) == IF k \in DOMAIN f THEN f[k] ELSE None

\* for (const [k, v] of Object.entries(g)) f.set(k, v)
SetAll(f, g) == [x \in DOMAIN f \cup DOMAIN g |-> IF x \in DOMAIN g THEN g[x] ELSE f[x]]

\* JavaScript truthiness of an optional string
Truthy(v) == v # None /\ v # ""

\* id.endsWith('@s.whatsapp.net'), id.endsWith('@lid'), id.endsWith('@g.us')
IsJid(id) == id \in Jids
IsLid(id) == id \in Lids
IsGroup(id) == id \in GroupIds

\* ------------------------------------------------------------------------
\* Strings
\* ------------------------------------------------------------------------
CharAt(s, i) == SubSeq(s, i, i)

UpperCase == "ABCDEFGHIJKLMNOPQRSTUVWXYZ"
LowerCase == "abcdefghijklmnopqrstuvwxyz"
Digits == {"0", "1", "2", "3", "4", "5", "6", "7", "8", "9"}
Letters == {CharAt(LowerCase, i) : i \in 1..Len(LowerCase)}

\* s.endsWith(suffix), s.startsWith(prefix), s.includes(part)
endsWith(s, suffix) ==
    /\ Len(suffix) <= Len(s)
    /\ SubSeq(s, Len(s) - Len(suffix) + 1, Len(s)) = suffix
startsWith(s, prefix) ==
    Len(prefix) <= Len(s) /\ SubSeq(s, 1, Len(prefix)) = prefix
includes(s, part) ==
    \E i \in 1..(Len(s) - Len(part) + 1) : SubSeq(s, i, i + Len(part) - 1) = part

\* s.replace(/[^...]/g, ''): the characters of s that are in keep
RECURSIVE keepChars(_, _)
keepChars(s, keep) ==
    IF s = "" THEN ""
    ELSE (IF CharAt(s, 1) \in keep THEN CharAt(s, 1) ELSE "")
            \o keepChars(SubSeq(s, 2, Len(s)), keep)

\* c.toLowerCase() of one character
lowerChar(c) ==
    IF \E i \in 1..Len(UpperCase) : CharAt(UpperCase, i) = c
    THEN CharAt(LowerCase, CHOOSE i \in 1..Len(UpperCase) : CharAt(UpperCase, i) = c)
    ELSE c

RECURSIVE toLowerCase(_)
toLowerCase(s) ==
    IF s = "" THEN "" ELSE lowerChar(CharAt(s, 1)) \o toLowerCase(SubSeq(s, 2, Len(s)))

\* s.trim()
RECURSIVE trimStart(_)
trimStart(s) ==
    IF s # "" /\ CharAt(s, 1) = " " THEN trimStart(SubSeq(s, 2, Len(s))) ELSE s
RECURSIVE trimEnd(_)
trimEnd(s) ==
    IF s # "" /\ CharAt(s, Len(s)) = " " THEN trimEnd(SubSeq(s, 1, Len(s) - 1)) ELSE s
trim(s) == trimEnd(trimStart(s))

\* s.split(/\s+/): the pieces between runs of spaces ("" gives <<"">>)
RECURSIVE splitFrom(_, _)
splitFrom(s, piece) ==
    IF s = "" THEN <<piece>>
    ELSE IF CharAt(s, 1) = " "
         THEN <<piece>> \o splitFrom(trimStart(s), "")
         ELSE splitFrom(SubSeq(s, 2, Len(s)), piece \o CharAt(s, 1))
split(s) == splitFrom(s, "")

\* distance(a, b) of fastest-levenshtein
RECURSIVE distance(_, _)
distance(a, b) ==
    IF a = "" THEN Len(b)
    ELSE IF b = "" THEN Len(a)
    ELSE LET ra == SubSeq(a, 2, Len(a))
             rb == SubSeq(b, 2, Len(b))
             sub == distance(ra, rb) + (IF CharAt(a, 1) = CharAt(b, 1) THEN 0 ELSE 1)
             del == distance(ra, b) + 1
             ins == distance(a, rb) + 1
         IN IF sub <= del /\ sub <= ins THEN sub
            ELSE IF del <= ins THEN del ELSE ins

\* socket.user.id as the transport reports it: user part and device part
SocketUser == [user |-> "me", device |-> "0"]

\* the contacts of contacts.upsert / contacts.update / a history batch:
\* keyed by JID without or with name and notify, keyed by JID and carrying
\* the linked id, keyed by the linked id
Contacts ==
    {[NoContact EXCEPT !.id = j, !.name = f[1], !.notify = f[2]] :
        j \in Jids, f \in {<<None, None>>, <<None, "nick">>, <<"", None>>, <<"Ann", None>>}}
    \cup {[NoContact EXCEPT !.id = j, !.lid = l] : j \in Jids, l \in Lids}
    \cup {[NoContact EXCEPT !.id = l, !.name = f[1], !.notify = f[2]] :
        l \in Lids, f \in {<<"Ann", None>>, <<None, "nick">>}}
\* the batches the transport delivers
ContactBatches == {<<c>> : c \in Contacts}

\* the chats of a history batch: id and name
Chats == {[id |-> i, name |-> "Bea"] : i \in Jids \cup Lids \cup GroupIds}
\* messages: key.participant || key.remoteJid, and pushName
Messages ==
    {[id |-> i, pushName |-> n] : i \in Jids \cup Lids, n \in {None, "push"}}
    \cup {[id |-> i, pushName |-> "push"] : i \in GroupIds \cup {Broadcast}}

VARIABLES
    sessions,       \* uid -> session object held by the sessions map
    orphans,        \* uid -> bag of session objects of live sockets not in the map
    retryState,     \* uid -> {attempts, timer}
    strayTimers,    \* uid -> armed timers no retryState entry refers to
    pendingInit,    \* uid -> initSession calls suspended at their await
    pendingLogout,  \* uid -> logoutSession calls suspended at socket.logout()
    listeners,      \* uid -> set of callbacks
    inbox,          \* callback -> the event it was last called with
    contactStore,   \* uid -> contact table
    lidToJid,       \* uid -> linked-id map
    savedContactStore, \* uid -> saved-contact table
    disk,           \* uid -> sessions/{uid}/
    archive,        \* uid -> sessions-archive/{uid}/*
    outbox,         \* uid -> jids handed to socket.sendMessage
    immediates,     \* uid -> queue of history callbacks handed to setImmediate
    calls,          \* uid -> async calls suspended at an await
    reminders,      \* the reminder service's pending reminders
    nextId,         \* the reminder service's id counter
    remindersFile,  \* data/reminders.json
    clock,          \* Date.now()
    ticks,          \* the reminder tick: started, and its suspended invocations
    shadow,         \* observer: the directory of the events applied in order
    last,           \* observer: the operation that produced this state
    watch,          \* observer: whether the lifecycle observers below record
    consec,         \* observer: consecutive retriable disconnects since an open or a logout
    abandoned,      \* observer: why the uid was given up, until connect is requested
    streak,         \* observer: retriable disconnects since the retry state was cleared
    afterOpen,      \* observer: the last open, and the retriable disconnects since
    stale,          \* observer: armed timers scheduled before the last open or logout
    ledger          \* observer: reminders scheduled, met by a due tick, and sent

progVars == <<sessions, orphans, retryState, strayTimers, pendingInit,
              pendingLogout, listeners, inbox, contactStore, lidToJid,
              savedContactStore, disk, archive, outbox, immediates,
              calls, reminders, nextId, remindersFile, clock, ticks>>
vars == <<sessions, orphans, retryState, strayTimers, pendingInit,
          pendingLogout, listeners, inbox, contactStore, lidToJid,
          savedContactStore, disk, archive, outbox, immediates, shadow, last, watch, consec,
          abandoned, streak, afterOpen, stale, calls, reminders, nextId,
          remindersFile, clock, ticks, ledger>>

MessageBatches == {<<m>> : m \in Messages}

\* history batches: chats only, messages only, and contacts with the chat
\* and the message of each
HistoryBatches ==
    {[contacts |-> <<>>, chats |-> <<ch>>, messages |-> <<>>] : ch \in Chats}
    \cup {[contacts |-> <<>>, chats |-> <<>>, messages |-> <<m>>] :
            m \in {x \in Messages : x.id \in GroupIds \cup Jids /\ x.pushName = "push"}}
    \cup {[contacts |-> <<c>>, chats |-> <<[id |-> c.id, name |-> "Bea"]>>,
           messages |-> <<[id |-> c.id, pushName |-> "push"]>>] :
                c \in {x \in Contacts : x.lid # None}}

\* the contact the disk specification upserts
DiskBatch == <<[id |-> "j1@s.whatsapp.net", name |-> "Ann", notify |-> None, lid |-> "l1@lid"]>>

\* contacts.json as a previous run left it: the old flat format keyed by
\* JID, the old flat format with an entry keyed by a linked id, and the
\* current format {contacts, lidMap}
CachedFiles ==
    {[present |-> TRUE,
      raw |-> Put(Empty, "j1@s.whatsapp.net",
                  [NoContact EXCEPT !.id = "j1@s.whatsapp.net", !.name = "Ann"])],
     [present |-> TRUE,
      raw |-> Put(Empty, "l1@lid", [NoContact EXCEPT !.id = "l1@lid", !.notify = "nick"])],
     [present |-> TRUE,
      raw |-> [contacts |-> Put(Empty, "j1@s.whatsapp.net",
                                [NoContact EXCEPT !.id = "j1@s.whatsapp.net",
                                                  !.notify = "nick", !.lid = "l1@lid"]),
               lidMap |-> Put(Empty, "l1@lid", "j1@s.whatsapp.net")]]}

\* sessions/{uid}/ at start-up: missing, or with auth files and a cache
CachedDirs ==
    {NoDir} \cup {[exists |-> TRUE, auth |-> TRUE, contacts |-> f, saved |-> NoFile] :
                    f \in CachedFiles}

\* ------------------------------------------------------------------------
\* Helpers
\* ------------------------------------------------------------------------
Min(a, b) == IF a < b THEN a ELSE b

NewSession == [sock |-> "connecting", connected |-> FALSE, qr |-> None, userJid |-> NoJid]

Live(s) == s.sock \in {"connecting", "open"}

\* sockets of uid that were created, have their handlers registered and
\* have not closed
LiveSockets(uid) ==
    (IF Live(sessions[uid]) THEN 1 ELSE 0) + BagCardinality(orphans[uid])

PendingOf(rs) == IF rs.timer = "pending" THEN 1 ELSE 0

ArmedTimers(uid) == PendingOf(retryState[uid]) + strayTimers[uid]

Load(uid) ==
    LiveSockets(uid) + pendingInit[uid].manual + pendingInit[uid].auto + ArmedTimers(uid)

\* the sockets whose handlers can still run: the one of the session in the
\* map and the ones of superseded or removed sessions
Refs(uid) ==
    (IF Live(sessions[uid]) THEN {[cur |-> TRUE, s |-> sessions[uid]]} ELSE {})
    \cup {[cur |-> FALSE, s |-> o] : o \in BagToSet(orphans[uid])}

Op(op, uid, code, delay, result) ==
    [op |-> op, uid |-> uid, code |-> code, delay |-> delay, result |-> result,
     arg |-> None, write |-> None]

Event(type, data) == [type |-> type, data |-> data]

isConnected(uid) == sessions[uid].connected = TRUE

emit(box, uid, event) ==
    [cb \in Callbacks |-> IF cb \in listeners[uid] THEN event ELSE box[cb]]

\* a session object changes in place: in the map, or among the orphans
Mutate(uid, r, s2) ==
    /\ sessions' = IF r.cur THEN [sessions EXCEPT ![uid] = s2] ELSE sessions
    /\ orphans' = IF r.cur THEN orphans
                  ELSE [orphans EXCEPT ![uid] = (@ (-) SetToBag({r.s})) (+) SetToBag({s2})]

\* the state after the module is loaded, over the session directories dirs
\* the names saveContact is called with
SavedNames == {"Ann", "Ann Lee"}
\* the entries of a bulk import: name and phone as the caller typed them
ImportEntries ==
    {[name |-> "Ann", phone |-> "1234567"],
     [name |-> " Ann Lee ", phone |-> "+1 (234) 567"],
     [name |-> "Lee Ann", phone |-> "7654321"],
     [name |-> "  ", phone |-> "7654321"],
     [name |-> "Ann", phone |-> "12-345"]}
RECURSIVE SeqsUpTo(_, _)
SeqsUpTo(S, n) ==
    IF n = 0 THEN {<<>>}
    ELSE SeqsUpTo(S, n - 1) \cup
         {Append(q, e) : q \in {x \in SeqsUpTo(S, n - 1) : Len(x) = n - 1}, e \in S}
ImportBatches == SeqsUpTo(ImportEntries, MaxBatch) \ {<<>>}

\* learned directories handed to findContact, in the order of the Map
Directories ==
    LET c(id, name, notify) == [id |-> id, name |-> name, notify |-> notify] IN
    {<<>>,
     <<c("j1@s.whatsapp.net", "Ann", None)>>,
     <<c("g1@g.us", "Ann", None)>>,
     <<c("l1@lid", "Ann", None), c(Broadcast, None, "Ann")>>,
     <<c("g1@g.us", "Ann Lee", None), c("j1@s.whatsapp.net", None, "Lee Ann")>>,
     <<c("j1@s.whatsapp.net", "?!", None)>>}
\* the names a caller asks for
Queries == {"ann", "Lee Ann", "an", "nn", "anm", "?!", "zed"}

\* a saved-contacts.json of a previous run whose entry has no source
LegacySaved ==
    [present |-> TRUE,
     raw |-> [contacts |->
        <<[id |-> "1234567@s.whatsapp.net", name |-> "Ann", source |-> None,
           updated |-> FALSE]>>]]
SavedDirs ==
    {NoDir, [exists |-> TRUE, auth |-> TRUE, contacts |-> NoFile, saved |-> LegacySaved]}

\* the module state with the session directories, the saved-contact tables,
\* the reminders file and the time given
LoadedAt(dirs, saved, file, now) ==
    /\ sessions = [u \in UIDs |-> NoSession]
    /\ orphans = [u \in UIDs |-> EmptyBag]
    /\ retryState = [u \in UIDs |-> NoRetry]
    /\ strayTimers = [u \in UIDs |-> 0]
    /\ pendingInit = [u \in UIDs |-> [manual |-> 0, auto |-> 0]]
    /\ pendingLogout = [u \in UIDs |-> 0]
    /\ listeners = [u \in UIDs |-> {}]
    /\ inbox = [cb \in Callbacks |-> NoEvent]
    /\ contactStore = [u \in UIDs |-> NoStore]
    /\ lidToJid = [u \in UIDs |-> NoStore]
    /\ savedContactStore = saved
    /\ disk = dirs
    /\ archive = [u \in UIDs |-> {}]
    /\ outbox = [u \in UIDs |-> {}]
    /\ immediates = [u \in UIDs |-> <<>>]
    /\ shadow = [u \in UIDs |-> NoShadow]
    /\ last = Op("init", None, 0, 0, None)
    /\ consec = [u \in UIDs |-> 0]
    /\ abandoned = [u \in UIDs |-> None]
    /\ streak = [u \in UIDs |-> 0]
    /\ afterOpen = [u \in UIDs |-> [opened |-> FALSE, afterFailures |-> FALSE, closes |-> 0]]
    /\ stale = [u \in UIDs |-> 0]
    /\ calls = [u \in UIDs |-> {}]
    /\ reminders = <<>>
    /\ nextId = 1
    /\ remindersFile = file
    /\ clock = now
    /\ ticks = [started |-> FALSE, running |-> {}]
    /\ ledger = [scheduled |-> IF file.present THEN Range(file.raw) ELSE {},
                 met |-> {}, owed |-> {}, fired |-> {}]

\* the module state with the session directories and the saved-contact
\* tables given
Loaded(dirs, saved) == LoadedAt(dirs, saved, NoFile, 0)

\* the state after the module is loaded on the session directories given
Booted(dirs) == Loaded(dirs, [u \in UIDs |-> NoSaved])

\* a first start: no session directory yet
Start == Booted([u \in UIDs |-> NoDir])

\* the state after the module is loaded, the lifecycle observers recording
Init == Start /\ watch = TRUE

\* the same, the lifecycle observers idle
InitQuiet == Start /\ watch = FALSE

\* a restart: each uid without a directory or with one a previous run left
InitRestart == (\E dirs \in [UIDs -> CachedDirs] : Booted(dirs)) /\ watch = FALSE

\* an observer's next value: recorded only while watching
Watched(old, new) == IF watch THEN new ELSE old

\* ------------------------------------------------------------------------
\* Disk: archiveSessionData, clearSessionAuth
\* ------------------------------------------------------------------------
archiveSessionData(d, arch, reason) ==
    IF ~d.exists THEN arch
    ELSE IF ~d.contacts.present THEN arch
    ELSE arch \cup {[reason |-> reason, contacts |-> d.contacts, saved |-> d.saved]}

clearSessionAuth(d) ==
    IF ~d.exists THEN d
    ELSE IF d.saved.present
         THEN [exists |-> TRUE, auth |-> FALSE, contacts |-> NoFile, saved |-> d.saved]
         ELSE NoDir

\* ------------------------------------------------------------------------
\* initSession
\* ------------------------------------------------------------------------
\* the head without the early return
initSessionHead_noReturn(uid, origin) ==
    [pendingInit EXCEPT ![uid][origin] = @ + 1]

\* the synchronous head of initSession: return when connected, otherwise
\* suspend at `await useMultiFileAuthStateWithCleanup`
initSessionHead(uid, origin) ==
    IF isConnected(uid) THEN pendingInit
    ELSE [pendingInit EXCEPT ![uid][origin] = @ + 1]

\* connect requested through the setup page
InitSession(uid, maxLoad) ==
    /\ isConnected(uid) \/ Load(uid) < maxLoad
    /\ pendingInit' = initSessionHead(uid, "manual")
    /\ last' = Op("initSession", uid, 0, 0, IF isConnected(uid) THEN "noop" ELSE "started")
    /\ abandoned' = Watched(abandoned, [abandoned EXCEPT ![uid] = None])
    /\ UNCHANGED <<watch, calls, reminders, nextId, remindersFile, clock, ticks, ledger, immediates, shadow, stale, sessions, orphans, retryState, strayTimers, pendingLogout,
                   listeners, inbox, contactStore, lidToJid, savedContactStore,
                   disk, archive, outbox, consec, streak, afterOpen>>

\* the loader taking every file for a flat one
contactData_flat(raw) == raw

\* raw.contacts ?? raw: the new format {contacts, lidMap} or the old flat one
contactData(raw) == IF "contacts" \in DOMAIN raw THEN raw.contacts ELSE raw

\* raw.lidMap ?? {}
lidMapData(raw) == IF "lidMap" \in DOMAIN raw THEN raw.lidMap ELSE Empty

\* a restart that reads no cache
loadCachedContacts_skipped(store, file) == store

\* loadCachedContacts, the contact table: every entry of the file is set
\* over the table in memory
loadCachedContacts(store, file) ==
    IF ~file.present THEN store
    ELSE [present |-> TRUE, entries |-> SetAll(store.entries, contactData(file.raw))]

\* loadCachedContacts, the linked-id map
loadCachedLids(lmap, file) ==
    IF ~file.present THEN lmap
    ELSE [present |-> TRUE, entries |-> SetAll(lmap.entries, lidMapData(file.raw))]

\* loadSavedContacts: every entry of raw.contacts is set in the table, an
\* entry without source as a manual one
RECURSIVE setAllSaved(_, _)
setAllSaved(m, cs) ==
    IF cs = <<>> THEN m
    ELSE LET c == Head(cs)
             k == CHOOSE i \in 1..Len(m) : m[i].id = c.id
             d == IF Truthy(c.source) THEN c ELSE [c EXCEPT !.source = "manual"]
         IN setAllSaved(IF \E i \in 1..Len(m) : m[i].id = c.id
                        THEN [m EXCEPT ![k] = d] ELSE Append(m, d),
                        Tail(cs))

loadSavedContacts(store, file) ==
    IF ~file.present THEN store
    ELSE [present |-> TRUE,
          entries |-> setAllSaved(store.entries,
                        IF "contacts" \in DOMAIN file.raw THEN file.raw.contacts ELSE <<>>)]

\* the rest of initSession, after the await: socket, session, stores, handlers
InitSessionResume(uid, origin) ==
    /\ pendingInit[uid][origin] > 0
    /\ pendingInit' = [pendingInit EXCEPT ![uid][origin] = @ - 1]
    /\ disk' = [disk EXCEPT ![uid].exists = TRUE]
    /\ sessions' = [sessions EXCEPT ![uid] = NewSession]
    /\ orphans' = IF Live(sessions[uid])
                  THEN [orphans EXCEPT ![uid] = @ (+) SetToBag({sessions[uid]})]
                  ELSE orphans
    /\ contactStore' = [contactStore EXCEPT ![uid] =
            loadCachedContacts([present |-> TRUE, entries |-> @.entries], disk[uid].contacts)]
    /\ lidToJid' = [lidToJid EXCEPT ![uid] = loadCachedLids(@, disk[uid].contacts)]
    /\ savedContactStore' = [savedContactStore EXCEPT ![uid] =
            loadSavedContacts(@, disk[uid].saved)]
    /\ shadow' = IF shadow[uid].on
                 THEN [shadow EXCEPT ![uid].store =
                            loadCachedContacts([present |-> TRUE, entries |-> @.entries],
                                               disk[uid].contacts),
                                     ![uid].lmap = loadCachedLids(@, disk[uid].contacts)]
                 ELSE shadow
    /\ last' = Op("initSessionResume", uid, 0, 0, origin)
    /\ abandoned' = Watched(abandoned, IF origin = "manual" THEN [abandoned EXCEPT ![uid] = None] ELSE abandoned)
    /\ UNCHANGED <<watch, calls, reminders, nextId, remindersFile, clock, ticks, ledger, immediates, stale, retryState, strayTimers, pendingLogout, listeners, inbox,
                   archive, outbox, consec, streak, afterOpen>>

\* a backoff timer fires: its callback calls initSession(uid)
TimerFire(uid) ==
    /\ ArmedTimers(uid) > 0
    /\ \/ /\ retryState[uid].timer = "pending"
          /\ retryState' = [retryState EXCEPT ![uid].timer = "fired"]
          /\ UNCHANGED strayTimers
          /\ UNCHANGED stale
       \/ /\ strayTimers[uid] > 0
          /\ strayTimers' = [strayTimers EXCEPT ![uid] = @ - 1]
          /\ UNCHANGED retryState
          /\ \/ stale[uid] > 0 /\ stale' = [stale EXCEPT ![uid] = @ - 1]
             \/ strayTimers[uid] > stale[uid] /\ UNCHANGED stale
    /\ pendingInit' = initSessionHead(uid, "auto")
    /\ last' = Op("timer", uid, 0, 0, IF isConnected(uid) THEN "noop" ELSE "started")
    /\ UNCHANGED <<watch, calls, reminders, nextId, remindersFile, clock, ticks, ledger, immediates, shadow, sessions, orphans, pendingLogout, listeners, inbox,
                   contactStore, lidToJid, savedContactStore, disk, archive,
                   outbox, consec, abandoned,
                   streak, afterOpen>>

\* ------------------------------------------------------------------------
\* connection.update handler
\* ------------------------------------------------------------------------
\* update carrying a qr
QrUpdate(uid, r, q) ==
    /\ r.s.sock = "connecting"
    /\ Mutate(uid, r, [r.s EXCEPT !.qr = q, !.connected = FALSE])
    /\ inbox' = emit(inbox, uid, Event("qr", q))
    /\ last' = Op("qr", uid, 0, 0, q)
    /\ UNCHANGED <<watch, calls, reminders, nextId, remindersFile, clock, ticks, ledger, immediates, shadow, stale, retryState, strayTimers, pendingInit, pendingLogout, listeners,
                   contactStore, lidToJid, savedContactStore, disk, archive,
                   outbox, consec, abandoned,
                   streak, afterOpen>>

\* the retry entry kept across an open
retryDelete_kept(uid) ==
    UNCHANGED <<retryState, strayTimers>>

\* retryState.delete(uid): the entry goes, a timer it referred to stays armed
retryDelete(uid) ==
    /\ retryState' = [retryState EXCEPT ![uid] = NoRetry]
    /\ strayTimers' = [strayTimers EXCEPT ![uid] = @ + PendingOf(retryState[uid])]

\* the open branch that leaves the pending code in place
opened_keepsQr(s, user) ==
    [s EXCEPT !.sock = "open", !.connected = TRUE, !.userJid = user]

\* the session object after the open branch
opened(s, user) ==
    [s EXCEPT !.sock = "open", !.connected = TRUE, !.qr = None, !.userJid = user]

\* update with connection = 'open'
OpenUpdate(uid, r, user) ==
    /\ r.s.sock = "connecting"
    /\ Mutate(uid, r, opened(r.s, user))
    /\ retryDelete(uid)
    /\ inbox' = emit(inbox, uid, Event("connected", None))
    /\ last' = Op("open", uid, 0, 0, None)
    /\ consec' = Watched(consec, [consec EXCEPT ![uid] = 0])
    /\ streak' = Watched(streak, [streak EXCEPT ![uid] = 0])
    /\ afterOpen' = Watched(afterOpen, [afterOpen EXCEPT ![uid] =
                    [opened |-> TRUE, afterFailures |-> retryState[uid].attempts > 0, closes |-> 0]])
    /\ stale' = Watched(stale, [stale EXCEPT ![uid] =
                    PendingOf(retryState'[uid]) + strayTimers'[uid]])
    /\ UNCHANGED <<watch, calls, reminders, nextId, remindersFile, clock, ticks, ledger, immediates, shadow, pendingInit, pendingLogout, listeners, contactStore, lidToJid,
                   savedContactStore, disk, archive, outbox, abandoned>>

Retriable(code) == code \notin NON_RETRIABLE_CODES

GivesUp(rs) == rs.attempts + 1 > MAX_RECONNECT_ATTEMPTS

\* the exponent taken from the attempt number itself
BackoffDelay_exponent(attempts) ==
    Min(BASE_BACKOFF_MS * 2^attempts, MAX_BACKOFF_MS)

BackoffDelay(attempts) ==
    Min(BASE_BACKOFF_MS * 2^(attempts - 1), MAX_BACKOFF_MS)

\* every non-retriable close taken for a logout
disconnectReason_allLoggedOut(code) ==
    IF ~Retriable(code) THEN "logged_out" ELSE "connection_closed"

disconnectReason(code) ==
    IF ~Retriable(code)
    THEN (IF code = loggedOut THEN "logged_out" ELSE "server_rejected")
    ELSE "connection_closed"

\* what the close branch does to the session map, the retry state, the
\* timers, the listeners and the disk; rs and stray are the retry entry and
\* the stray timers it starts from
closeHandler(uid, r, code, rs, stray) ==
    LET drop == ~Retriable(code) \/ GivesUp(rs)
        closed == [r.s EXCEPT !.connected = FALSE, !.sock = "closed"]
        wipe == disconnectReason(code) = "logged_out"
    IN
    /\ sessions' = [sessions EXCEPT ![uid] =
            IF drop THEN NoSession ELSE IF r.cur THEN closed ELSE @]
    /\ orphans' = [orphans EXCEPT ![uid] =
            IF r.cur THEN @
            ELSE (@ (-) SetToBag({r.s}))
                 (+) (IF drop /\ Live(sessions[uid]) THEN SetToBag({sessions[uid]}) ELSE EmptyBag)]
    /\ retryState' = [retryState EXCEPT ![uid] =
            IF drop THEN NoRetry
            ELSE [attempts |-> rs.attempts + 1, timer |-> "pending"]]
    /\ strayTimers' = [strayTimers EXCEPT ![uid] = stray + PendingOf(rs)]
    /\ inbox' = emit(inbox, uid, Event("disconnected", disconnectReason(code)))
    /\ archive' = [archive EXCEPT ![uid] =
            IF wipe THEN archiveSessionData(disk[uid], @, "logged_out") ELSE @]
    /\ disk' = [disk EXCEPT ![uid] = IF wipe THEN clearSessionAuth(@) ELSE @]
    /\ consec' = Watched(consec, [consec EXCEPT ![uid] =
                    IF Retriable(code) THEN Min(@ + 1, MaxConsec) ELSE 0])
    /\ abandoned' = Watched(abandoned, [abandoned EXCEPT ![uid] =
                    IF ~Retriable(code) THEN "terminal"
                    ELSE IF GivesUp(rs) THEN "gaveup" ELSE @])
    /\ streak' = Watched(streak, [streak EXCEPT ![uid] =
                    IF ~Retriable(code) THEN 0
                    ELSE IF @ > MAX_RECONNECT_ATTEMPTS THEN 1 ELSE @ + 1])
    /\ afterOpen' = Watched(afterOpen, [afterOpen EXCEPT ![uid].closes =
                    IF Retriable(code) THEN Min(@ + 1, 2) ELSE @])

closeResult(code, rs) ==
    IF ~Retriable(code) THEN "terminal"
    ELSE IF GivesUp(rs) THEN "gaveup" ELSE "scheduled"

closeDelay(code, rs) ==
    IF Retriable(code) /\ ~GivesUp(rs) THEN BackoffDelay(rs.attempts + 1) ELSE 0

\* update with connection = 'close'
CloseUpdate(uid, r, code) ==
    /\ closeHandler(uid, r, code, retryState[uid], strayTimers[uid])
    /\ last' = Op("close", uid, code, closeDelay(code, retryState[uid]),
                  closeResult(code, retryState[uid]))
    /\ UNCHANGED <<watch, calls, reminders, nextId, remindersFile, clock, ticks, ledger, immediates, shadow, stale, pendingInit, pendingLogout, listeners, contactStore, lidToJid,
                   savedContactStore, outbox>>

\* creds.update: saveCreds writes the auth files of the uid
CredsUpdate(uid, r) ==
    /\ disk[uid].exists
    /\ disk' = [disk EXCEPT ![uid].auth = TRUE]
    /\ last' = Op("creds", uid, 0, 0, None)
    /\ UNCHANGED <<watch, calls, reminders, nextId, remindersFile, clock, ticks, ledger, immediates, shadow, stale, sessions, orphans, retryState, strayTimers, pendingInit,
                   pendingLogout, listeners, inbox, contactStore, lidToJid,
                   savedContactStore, archive, outbox, consec, abandoned,
                   streak, afterOpen>>

\* ------------------------------------------------------------------------
\* contact directory: persistContacts, upsertContact, the enrichment passes
\* ------------------------------------------------------------------------
\* whether persistContacts writes: nothing for an absent or empty table;
\* the write fails when the directory is gone or the file system refuses it
persistOutcome(d, store, ok) ==
    IF ~store.present \/ DOMAIN store.entries = {} THEN None
    ELSE IF d.exists /\ ok THEN "written" ELSE "failed"

\* persistContacts: the file gets {contacts, lidMap}
persistContacts(d, store, lmap, ok) ==
    IF persistOutcome(d, store, ok) = "written"
    THEN [d EXCEPT !.contacts = [present |-> TRUE,
                                 raw |-> [contacts |-> store.entries,
                                          lidMap |-> lmap.entries]]]
    ELSE d

\* a failed write thrown on to the caller
persistCatch_rethrow(w) == IF w = "failed" THEN "thrown" ELSE None

\* the catch block of persistContacts: a failed write is logged
persistCatch(w) == IF w = "failed" THEN "logged" ELSE None

registerLidMapping(lmap, lid, jid) ==
    [present |-> TRUE, entries |-> Put(lmap.entries, lid, jid)]

\* a resolver that takes a linked id for a storage key
resolveToJid_identity(lmap, id) ==
    IF IsJid(id) \/ IsLid(id) THEN id ELSE None

resolveToJid(lmap, id) ==
    IF IsJid(id) THEN id
    ELSE IF IsLid(id) THEN Get(lmap.entries, id)
    ELSE None

\* store.get(jid), NoContact for undefined
getContact(entries, jid) == IF jid \in DOMAIN entries THEN entries[jid] ELSE NoContact

\* the merge without the preference for the stored name
mergeContact_noPreference(existing, c, jid) ==
    [[f \in DOMAIN NoContact |-> IF c[f] # None THEN c[f] ELSE existing[f]]
        EXCEPT !.id = jid]

\* a merge that drops a stored name when the same name arrives again
mergeContact_toggle(existing, c, jid) ==
    LET spread == [f \in DOMAIN NoContact |-> IF c[f] # None THEN c[f] ELSE existing[f]]
    IN [spread EXCEPT !.id = jid,
                      !.name = IF Truthy(existing.name) /\ existing.name = c.name
                               THEN None ELSE spread.name]

\* { ...existing, ...contact, id: jid }, then the stored name preferred
\* when the incoming record has none
mergeContact(existing, c, jid) ==
    LET spread == [f \in DOMAIN NoContact |-> IF c[f] # None THEN c[f] ELSE existing[f]]
    IN [spread EXCEPT !.id = jid,
                      !.name = IF Truthy(existing.name) /\ ~Truthy(c.name)
                               THEN existing.name ELSE spread.name]

\* the directory of a uid as the functions below thread it: table, linked-id
\* map, whether a TypeError was thrown, and the count of enrichments
Dir(uid) ==
    [store |-> contactStore[uid], lmap |-> lidToJid[uid], threw |-> FALSE, n |-> 0]

\* upsertContact: the mapping is registered first; without a table the read
\* of the existing entry throws
upsertContact(dir, c) ==
    LET lmap1 == IF IsJid(c.id) /\ Truthy(c.lid)
                 THEN registerLidMapping(dir.lmap, c.lid, c.id) ELSE dir.lmap
        jid == resolveToJid(lmap1, c.id)
    IN IF jid = None THEN [dir EXCEPT !.lmap = lmap1]
       ELSE IF ~dir.store.present THEN [dir EXCEPT !.lmap = lmap1, !.threw = TRUE]
       ELSE [dir EXCEPT !.lmap = lmap1,
                        !.store.entries = Put(@, jid, mergeContact(getContact(@, jid), c, jid))]

\* for (const contact of contacts) upsertContact(uid, contact)
RECURSIVE upsertAll(_, _)
upsertAll(dir, cs) ==
    IF cs = <<>> \/ dir.threw THEN dir
    ELSE upsertAll(upsertContact(dir, Head(cs)), Tail(cs))

\* one turn of the loop of enrichContactsFromChats
enrichChat(dir, chat) ==
    LET jid == resolveToJid(dir.lmap, chat.id) IN
    IF IsGroup(chat.id) \/ chat.id = Broadcast THEN dir
    ELSE IF ~Truthy(chat.name) THEN dir
    ELSE IF jid = None THEN dir
    ELSE IF ~dir.store.present THEN [dir EXCEPT !.threw = TRUE]
    ELSE IF Truthy(getContact(dir.store.entries, jid).name) THEN dir
    ELSE [upsertContact(dir, [NoContact EXCEPT !.id = chat.id, !.name = chat.name])
            EXCEPT !.n = @ + 1]

RECURSIVE enrichContactsFromChats(_, _)
enrichContactsFromChats(dir, chats) ==
    IF chats = <<>> \/ dir.threw THEN dir
    ELSE enrichContactsFromChats(enrichChat(dir, Head(chats)), Tail(chats))

\* the second upsert of the loop, without the test of the stored notify
enrichNotify_always(dir, msg, jid) ==
    IF ~Truthy(msg.pushName) THEN dir
    ELSE [upsertContact(dir, [NoContact EXCEPT !.id = msg.id, !.notify = msg.pushName])
            EXCEPT !.n = @ + 1]

\* the second upsert of the loop of enrichContactsFromMessages: the push
\* name fills a missing notify
enrichNotify(dir, msg, jid) ==
    IF ~Truthy(msg.pushName) THEN dir
    ELSE IF Truthy(getContact(dir.store.entries, jid).notify) THEN dir
    ELSE [upsertContact(dir, [NoContact EXCEPT !.id = msg.id, !.notify = msg.pushName])
            EXCEPT !.n = @ + 1]

\* one turn of the loop of enrichContactsFromMessages
enrichMessage(dir, msg, includeBareNumbers) ==
    LET jid == resolveToJid(dir.lmap, msg.id) IN
    IF IsGroup(msg.id) \/ msg.id = Broadcast THEN dir
    ELSE IF jid = None THEN dir
    ELSE IF ~dir.store.present THEN [dir EXCEPT !.threw = TRUE]
    ELSE enrichNotify(
            IF jid \notin DOMAIN dir.store.entries /\ includeBareNumbers
            THEN [upsertContact(dir, [NoContact EXCEPT !.id = msg.id]) EXCEPT !.n = @ + 1]
            ELSE dir,
            msg, jid)

RECURSIVE enrichContactsFromMessages(_, _, _)
enrichContactsFromMessages(dir, msgs, includeBareNumbers) ==
    IF msgs = <<>> \/ dir.threw THEN dir
    ELSE enrichContactsFromMessages(enrichMessage(dir, Head(msgs), includeBareNumbers),
                                    Tail(msgs), includeBareNumbers)

\* the callback of a history batch handed to setImmediate
enrichHistory(dir, task) ==
    enrichContactsFromMessages(enrichContactsFromChats(dir, task.chats),
                               task.messages, FALSE)

\* ------------------------------------------------------------------------
\* contact event handlers
\* ------------------------------------------------------------------------
\* the observer of the directory: while a history callback is queued, the
\* directory the events delivered so far give when applied one after the other
SeqDir(uid) ==
    IF shadow[uid].on
    THEN [store |-> shadow[uid].store, lmap |-> shadow[uid].lmap, threw |-> FALSE, n |-> 0]
    ELSE Dir(uid)

Tracked(dir) == [on |-> TRUE, store |-> dir.store, lmap |-> dir.lmap]

\* what a handler reports: a TypeError out of upsertContact or of a read of
\* the table, an error thrown on by the write, or a normal return
handlerResult(threw, w) ==
    IF threw THEN "TypeError"
    ELSE IF persistCatch(w) = "thrown" THEN "Error"
    ELSE "done"

\* the tail the handlers share: table and map stored, persistContacts
\* called when due, the operation recorded (with its payload for a failed
\* write and for a history callback)
handlerTail(op, uid, arg, d1, threw, due, ok) ==
    LET w == IF threw \/ ~due THEN None ELSE persistOutcome(disk[uid], d1.store, ok) IN
    /\ contactStore' = [contactStore EXCEPT ![uid] = d1.store]
    /\ lidToJid' = [lidToJid EXCEPT ![uid] = d1.lmap]
    /\ disk' = IF threw \/ ~due THEN disk
               ELSE [disk EXCEPT ![uid] = persistContacts(@, d1.store, d1.lmap, ok)]
    /\ last' = [Op(op, uid, 0, 0, handlerResult(threw, w))
                    EXCEPT !.write = w,
                           !.arg = IF w = "failed" \/ op = "setImmediate" THEN arg ELSE None]

\* contacts.upsert
ContactsUpsert(uid, r, cs, ok) ==
    LET d1 == upsertAll(Dir(uid), cs) IN
    /\ r.s.sock = "open"
    /\ Cardinality(archive[uid]) < MaxArchives
    /\ handlerTail("contacts.upsert", uid, cs, d1,
                   d1.threw \/ ~contactStore[uid].present, TRUE, ok)
    /\ shadow' = IF shadow[uid].on
                 THEN [shadow EXCEPT ![uid] = Tracked(upsertAll(SeqDir(uid), cs))]
                 ELSE shadow
    /\ UNCHANGED <<watch, calls, reminders, nextId, remindersFile, clock, ticks, ledger, immediates, stale, sessions, orphans, retryState, strayTimers,
                   pendingInit, pendingLogout, listeners, inbox, savedContactStore,
                   archive, outbox, consec, abandoned, streak, afterOpen>>

\* contacts.update
ContactsUpdate(uid, r, cs, ok) ==
    LET d1 == upsertAll(Dir(uid), cs) IN
    /\ r.s.sock = "open"
    /\ handlerTail("contacts.update", uid, cs, d1, d1.threw, cs # <<>>, ok)
    /\ shadow' = IF shadow[uid].on
                 THEN [shadow EXCEPT ![uid] = Tracked(upsertAll(SeqDir(uid), cs))]
                 ELSE shadow
    /\ UNCHANGED <<watch, calls, reminders, nextId, remindersFile, clock, ticks, ledger, immediates, stale, sessions, orphans, retryState, strayTimers,
                   pendingInit, pendingLogout, listeners, inbox, savedContactStore,
                   archive, outbox, consec, abandoned, streak, afterOpen>>

\* messages.upsert
MessagesUpsert(uid, r, ms, ok) ==
    LET d1 == enrichContactsFromMessages(Dir(uid), ms, TRUE) IN
    /\ r.s.sock = "open"
    /\ handlerTail("messages.upsert", uid, ms, d1, d1.threw, d1.n > 0, ok)
    /\ shadow' = IF shadow[uid].on
                 THEN [shadow EXCEPT ![uid] =
                        Tracked(enrichContactsFromMessages(SeqDir(uid), ms, TRUE))]
                 ELSE shadow
    /\ UNCHANGED <<watch, calls, reminders, nextId, remindersFile, clock, ticks, ledger, immediates, stale, sessions, orphans, retryState, strayTimers,
                   pendingInit, pendingLogout, listeners, inbox, savedContactStore,
                   archive, outbox, consec, abandoned, streak, afterOpen>>

\* messaging-history.set: the contacts at once, the enrichment and the write
\* in a callback handed to setImmediate
HistorySet(uid, r, h) ==
    LET d1 == upsertAll(Dir(uid), h.contacts)
        s1 == upsertAll(SeqDir(uid), h.contacts)
    IN
    /\ r.s.sock = "open"
    /\ Len(immediates[uid]) < MaxImmediates
    /\ handlerTail("messaging-history.set", uid, h, d1, d1.threw, FALSE, TRUE)
    /\ immediates' = IF d1.threw THEN immediates
                     ELSE [immediates EXCEPT ![uid] =
                            Append(@, [chats |-> h.chats, messages |-> h.messages])]
    /\ shadow' = IF d1.threw THEN shadow
                 ELSE [shadow EXCEPT ![uid] =
                        Tracked(IF s1.threw THEN s1 ELSE enrichHistory(s1, h))]
    /\ UNCHANGED <<watch, calls, reminders, nextId, remindersFile, clock, ticks, ledger, stale, sessions, orphans, retryState, strayTimers,
                   pendingInit, pendingLogout, listeners, inbox, savedContactStore,
                   archive, outbox, consec, abandoned, streak, afterOpen>>

\* the callback of setImmediate runs: enrichContactsFromChats,
\* enrichContactsFromMessages, persistContacts
RunImmediate(uid, ok) ==
    LET d1 == enrichHistory(Dir(uid), Head(immediates[uid])) IN
    /\ immediates[uid] # <<>>
    /\ immediates' = [immediates EXCEPT ![uid] = Tail(@)]
    /\ handlerTail("setImmediate", uid, Head(immediates[uid]), d1, d1.threw, TRUE, ok)
    /\ shadow' = IF Tail(immediates[uid]) = <<>>
                 THEN [shadow EXCEPT ![uid] = NoShadow] ELSE shadow
    /\ UNCHANGED <<watch, calls, reminders, nextId, remindersFile, clock, ticks, ledger, stale, sessions, orphans, retryState, strayTimers,
                   pendingInit, pendingLogout, listeners, inbox, savedContactStore,
                   archive, outbox, consec, abandoned, streak, afterOpen>>

\* a route reads the directory: isConnected(uid) first, then getContacts(uid)
GetContacts(uid) ==
    /\ isConnected(uid)
    /\ last' = Op("getContacts", uid, 0, 0,
                  IF DOMAIN contactStore[uid].entries = {} THEN "empty" ELSE "contacts")
    /\ UNCHANGED <<watch, calls, reminders, nextId, remindersFile, clock, ticks, ledger, immediates, shadow, stale, sessions, orphans, retryState,
                   strayTimers, pendingInit, pendingLogout, listeners, inbox,
                   contactStore, lidToJid, savedContactStore, disk, archive, outbox,
                   consec, abandoned, streak, afterOpen>>

\* ------------------------------------------------------------------------
\* subscribe / unsubscribe
\* ------------------------------------------------------------------------
\* the replay without the pending auth code
replay_connectedOnly(uid) ==
    IF sessions[uid].connected THEN Event("connected", None) ELSE NoEvent

\* the event subscribe calls cb with before it returns
replay(uid) ==
    IF sessions[uid].connected THEN Event("connected", None)
    ELSE IF sessions[uid].qr # None THEN Event("qr", sessions[uid].qr)
    ELSE NoEvent

Subscribe(uid, cb) ==
    /\ \A u \in UIDs : cb \notin listeners[u]
    /\ listeners' = [listeners EXCEPT ![uid] = @ \cup {cb}]
    /\ inbox' = [inbox EXCEPT ![cb] = replay(uid)]
    /\ last' = Op("subscribe", uid, 0, 0, cb)
    /\ UNCHANGED <<watch, calls, reminders, nextId, remindersFile, clock, ticks, ledger, immediates, shadow, stale, sessions, orphans, retryState, strayTimers, pendingInit,
                   pendingLogout, contactStore, lidToJid, savedContactStore,
                   disk, archive, outbox, consec, abandoned,
                   streak, afterOpen>>

Unsubscribe(uid, cb) ==
    /\ cb \in listeners[uid]
    /\ listeners' = [listeners EXCEPT ![uid] = @ \ {cb}]
    /\ last' = Op("unsubscribe", uid, 0, 0, cb)
    /\ UNCHANGED <<watch, calls, reminders, nextId, remindersFile, clock, ticks, ledger, immediates, shadow, stale, sessions, orphans, retryState, strayTimers, pendingInit,
                   pendingLogout, inbox, contactStore, lidToJid,
                   savedContactStore, disk, archive, outbox, consec, abandoned,
                   streak, afterOpen>>

\* ------------------------------------------------------------------------
\* sendSelfMessage / sendMessage
\* ------------------------------------------------------------------------
\* session.userJid.replace(/:.*@/, '@'): the device part is dropped
selfJid(userJid) == [userJid EXCEPT !.device = None]

SendSelfMessage(uid) ==
    LET s == sessions[uid]
        ok == s.connected /\ s.userJid # NoJid
    IN
    /\ outbox' = [outbox EXCEPT ![uid] = IF ok THEN @ \cup {selfJid(s.userJid)} ELSE @]
    /\ last' = Op("sendSelfMessage", uid, 0, 0, IF ok THEN "sent" ELSE "NotConnected")
    /\ UNCHANGED <<watch, calls, reminders, nextId, remindersFile, clock, ticks, ledger, immediates, shadow, stale, sessions, orphans, retryState, strayTimers, pendingInit,
                   pendingLogout, listeners, inbox, contactStore, lidToJid,
                   savedContactStore, disk, archive, consec, abandoned,
                   streak, afterOpen>>

\* sendMessage that only looks for a session in the map
SendMessage_anySession(uid, jid) ==
    LET ok == sessions[uid] # NoSession IN
    /\ outbox' = [outbox EXCEPT ![uid] = IF ok THEN @ \cup {jid} ELSE @]
    /\ last' = Op("sendMessage", uid, 0, 0, IF ok THEN "sent" ELSE "NotConnected")
    /\ UNCHANGED <<watch, calls, reminders, nextId, remindersFile, clock, ticks, ledger, immediates, shadow, stale, sessions, orphans, retryState, strayTimers, pendingInit,
                   pendingLogout, listeners, inbox, contactStore, lidToJid,
                   savedContactStore, disk, archive, consec, abandoned,
                   streak, afterOpen>>

SendMessage(uid, jid) ==
    LET ok == sessions[uid].connected IN
    /\ outbox' = [outbox EXCEPT ![uid] = IF ok THEN @ \cup {jid} ELSE @]
    /\ last' = Op("sendMessage", uid, 0, 0, IF ok THEN "sent" ELSE "NotConnected")
    /\ UNCHANGED <<watch, calls, reminders, nextId, remindersFile, clock, ticks, ledger, immediates, shadow, stale, sessions, orphans, retryState, strayTimers, pendingInit,
                   pendingLogout, listeners, inbox, contactStore, lidToJid,
                   savedContactStore, disk, archive, consec, abandoned,
                   streak, afterOpen>>

\* ------------------------------------------------------------------------
\* saved contacts (saved-contacts.ts)
\* ------------------------------------------------------------------------
\* the Map of saved contacts in iteration order: has, get, set, delete
MapHas(m, k) == \E i \in 1..Len(m) : m[i].id = k
MapGet(m, k) ==
    IF MapHas(m, k) THEN m[CHOOSE i \in 1..Len(m) : m[i].id = k] ELSE None
MapSet(m, c) ==
    IF MapHas(m, c.id)
    THEN [i \in 1..Len(m) |-> IF m[i].id = c.id THEN c ELSE m[i]]
    ELSE Append(m, c)
MapDelete(m, k) == SelectSeq(m, LAMBDA c : c.id # k)

\* a SavedContact: id, name, source, and whether updatedAt is set
SavedContact(jid, name, source, updated) ==
    [id |-> jid, name |-> name, source |-> source, updated |-> updated]

\* persistSavedContacts: creates the directory when missing, writes
\* { contacts } with the entries of the table
persistSavedContacts(d, store) ==
    IF ~store.present THEN d
    ELSE [d EXCEPT !.exists = TRUE,
                   !.saved = [present |-> TRUE, raw |-> [contacts |-> store.entries]]]

\* the store saveContact / importContacts work on: created when missing
savedStoreOf(store) == IF store.present THEN store.entries ELSE <<>>

\* a saveContact that lets an import replace a manual entry
saveContact_noGuard(store, name, jid, source) ==
    LET m == savedStoreOf(store)
        existing == MapGet(m, jid)
        contact == SavedContact(jid, name, source, MapHas(m, jid))
    IN [store |-> [present |-> TRUE, entries |-> MapSet(m, contact)],
        result |-> contact, persist |-> TRUE]

\* saveContact: the table after it, the contact it returns, whether it persisted
saveContact(store, name, jid, source) ==
    LET m == savedStoreOf(store)
        existing == MapGet(m, jid)
        contact == SavedContact(jid, name, source, MapHas(m, jid))
    IN IF MapHas(m, jid) /\ existing.source = "manual" /\ source = "import"
       THEN [store |-> [present |-> TRUE, entries |-> m],
             result |-> existing, persist |-> FALSE]
       ELSE [store |-> [present |-> TRUE, entries |-> MapSet(m, contact)],
             result |-> contact, persist |-> TRUE]

SaveContact(uid, name, jid, source) ==
    LET r == saveContact(savedContactStore[uid], name, jid, source) IN
    /\ savedContactStore' = [savedContactStore EXCEPT ![uid] = r.store]
    /\ disk' = [disk EXCEPT ![uid] =
                    IF r.persist THEN persistSavedContacts(@, r.store) ELSE @]
    /\ last' = [Op("saveContact", uid, 0, 0, r.result)
                    EXCEPT !.arg = [name |-> name, jid |-> jid, source |-> source]]
    /\ UNCHANGED <<watch, calls, reminders, nextId, remindersFile, clock, ticks, ledger, immediates, shadow, stale, sessions, orphans, retryState, strayTimers, pendingInit,
                   pendingLogout, listeners, inbox, contactStore, lidToJid,
                   archive, outbox, consec, abandoned,
                   streak, afterOpen>>

\* normalizePhone: the digits of the phone string
normalizePhone(phone) == keepChars(phone, Digits)

NoStats == [upserted |-> 0, skipped |-> 0, invalid |-> 0, manualPreserved |-> 0]

\* entry.name?.trim() and normalizePhone(entry.phone ?? '')
importName(entry) == IF entry.name = None THEN None ELSE trim(entry.name)
importDigits(entry) == normalizePhone(IF entry.phone = None THEN "" ELSE entry.phone)

\* the verdict of importContacts on one entry against the table as it is
importVerdict_noIdentical(m, entry) ==
    LET name == importName(entry)
        digits == importDigits(entry)
        jid == digits \o "@s.whatsapp.net"
        existing == MapGet(m, jid)
    IN IF ~Truthy(name) \/ digits = "" \/ Len(digits) < 7 THEN "invalid"
       ELSE IF MapHas(m, jid) /\ existing.source = "manual" THEN "manual"
       ELSE "upsert"

importVerdict(m, entry) ==
    LET name == importName(entry)
        digits == importDigits(entry)
        jid == digits \o "@s.whatsapp.net"
        existing == MapGet(m, jid)
    IN IF ~Truthy(name) \/ digits = "" \/ Len(digits) < 7 THEN "invalid"
       ELSE IF MapHas(m, jid) /\ existing.source = "manual" THEN "manual"
       ELSE IF MapHas(m, jid) /\ existing.source = "import" /\ existing.name = name
            THEN "identical"
       ELSE "upsert"

\* one turn of the loop of importContacts over [entries, stats]
importEntry(acc, entry) ==
    LET v == importVerdict(acc.entries, entry)
        jid == importDigits(entry) \o "@s.whatsapp.net"
        st == acc.stats
    IN CASE v = "invalid" -> [acc EXCEPT !.stats.invalid = @ + 1]
         [] v = "manual" -> [acc EXCEPT !.stats.manualPreserved = @ + 1,
                                        !.stats.skipped = @ + 1]
         [] v = "identical" -> [acc EXCEPT !.stats.skipped = @ + 1]
         [] OTHER ->
            [entries |-> MapSet(acc.entries,
                            SavedContact(jid, importName(entry), "import",
                                         MapHas(acc.entries, jid))),
             stats |-> [st EXCEPT !.upserted = @ + 1]]

RECURSIVE importLoop(_, _)
importLoop(acc, batch) ==
    IF batch = <<>> THEN acc
    ELSE importLoop(importEntry(acc, Head(batch)), Tail(batch))

\* importContacts: the table after it and the counts it returns
importContacts(store, batch) ==
    LET r == importLoop([entries |-> savedStoreOf(store), stats |-> NoStats], batch)
    IN [store |-> [present |-> TRUE, entries |-> r.entries], result |-> r.stats]

ImportContacts(uid, batch) ==
    LET r == importContacts(savedContactStore[uid], batch) IN
    /\ savedContactStore' = [savedContactStore EXCEPT ![uid] = r.store]
    /\ disk' = [disk EXCEPT ![uid] = persistSavedContacts(@, r.store)]
    /\ last' = [Op("importContacts", uid, 0, 0, r.result) EXCEPT !.arg = batch]
    /\ UNCHANGED <<watch, calls, reminders, nextId, remindersFile, clock, ticks, ledger, immediates, shadow, stale, sessions, orphans, retryState, strayTimers, pendingInit,
                   pendingLogout, listeners, inbox, contactStore, lidToJid,
                   archive, outbox, consec, abandoned,
                   streak, afterOpen>>

\* deleteContact: false without a table or without the entry
DeleteContact(uid, jid) ==
    LET store == savedContactStore[uid]
        deleted == store.present /\ MapHas(store.entries, jid)
    IN
    /\ savedContactStore' = [savedContactStore EXCEPT ![uid] =
            IF deleted THEN [@ EXCEPT !.entries = MapDelete(@, jid)] ELSE @]
    /\ disk' = [disk EXCEPT ![uid] =
            IF deleted THEN persistSavedContacts(@, savedContactStore'[uid]) ELSE @]
    /\ last' = [Op("deleteContact", uid, 0, 0, deleted) EXCEPT !.arg = jid]
    /\ UNCHANGED <<watch, calls, reminders, nextId, remindersFile, clock, ticks, ledger, immediates, shadow, stale, sessions, orphans, retryState, strayTimers, pendingInit,
                   pendingLogout, listeners, inbox, contactStore, lidToJid,
                   archive, outbox, consec, abandoned,
                   streak, afterOpen>>

\* ------------------------------------------------------------------------
\* contact matcher (contact-matcher.ts)
\* ------------------------------------------------------------------------
\* scores are kept multiplied by SCALE, so that the fractions of the
\* token-overlap and the fuzzy tiers are integers for up to 10 tokens or
\* characters
SCALE == 2520
SCORE_EXACT == 100 * SCALE
SCORE_FIRST_NAME == 85 * SCALE
SCORE_TOKEN_OVERLAP == 70 * SCALE
SCORE_STARTS_WITH == 60 * SCALE
SCORE_CONTAINS == 40 * SCALE
SCORE_FUZZY == 20 * SCALE

\* a field of a contact object, None when the object does not have it
Field(c, f) == IF f \in DOMAIN c THEN c[f] ELSE None

\* normalize: lower case, [^a-z0-9\s] removed, trimmed (the names of the
\* model are ASCII, on which the NFD step changes nothing)
normalize(s) == trim(keepChars(toLowerCase(s), Letters \cup Digits \cup {" "}))

getNameVariants(contact) ==
    LET v(f) == IF Truthy(Field(contact, f)) THEN <<normalize(contact[f])>> ELSE <<>>
    IN v("name") \o v("notify") \o v("verifiedName")

getDisplayName(contact) ==
    IF Truthy(Field(contact, "name")) THEN contact.name
    ELSE IF Truthy(Field(contact, "notify")) THEN contact.notify
    ELSE IF Truthy(Field(contact, "verifiedName")) THEN contact.verifiedName
    ELSE contact.id

\* tokenOverlap: <<|intersection|, |union|>>, <<0, 1>> for its zero
tokenOverlap(a, b) ==
    LET setA == {split(a)[i] : i \in 1..Len(split(a))}
        setB == {split(b)[i] : i \in 1..Len(split(b))}
    IN IF Cardinality(setA) <= 1 /\ Cardinality(setB) <= 1 THEN <<0, 1>>
       ELSE <<Cardinality(setA \cap setB), Cardinality(setA \cup setB)>>

Max(a, b) == IF a >= b THEN a ELSE b

\* scoreVariant: the score of the first tier that applies
scoreVariant(query, variant) ==
    LET firstName == split(variant)[1]
        overlap == tokenOverlap(query, variant)
        maxDist == Max(1, Len(query) \div 4)
        dist == distance(query, variant)
        firstNameDist == distance(query, firstName)
    IN IF variant = query THEN SCORE_EXACT
       ELSE IF firstName = query THEN SCORE_FIRST_NAME
       ELSE IF 2 * overlap[1] >= overlap[2]
            THEN (SCORE_TOKEN_OVERLAP * overlap[1]) \div overlap[2]
       ELSE IF startsWith(variant, query) THEN SCORE_STARTS_WITH
       ELSE IF includes(variant, query) THEN SCORE_CONTAINS
       ELSE IF dist <= maxDist
            THEN (SCORE_FUZZY * (Len(query) - dist)) \div Len(query)
       ELSE IF firstNameDist <= maxDist
            THEN (SCORE_FUZZY * (Len(query) - firstNameDist)) \div Len(query)
       ELSE 0

\* a MatchedContact; jid None stands for null
NoMatch == [jid |-> None, displayName |-> None]
\* what findBestInMap carries: best score, match and source, and whether
\* the scan has returned from inside the loops
Best(score, match, source) ==
    [score |-> score, match |-> match, source |-> source, returned |-> FALSE]

\* the key test of findBestInMap without its restriction
eligible_any(jid) == TRUE

\* jid.endsWith('@s.whatsapp.net')
eligible(jid) == endsWith(jid, "@s.whatsapp.net")

isBetter(score, contactSource, best) ==
    \/ score > best.score
    \/ score = best.score /\ contactSource = "manual" /\ best.source = "import"

\* the loop over the variants of one contact
RECURSIVE scanVariants(_, _, _, _)
scanVariants(contact, variants, query, best) ==
    IF variants = <<>> THEN best
    ELSE LET score == scoreVariant(query, Head(variants))
             source == Field(contact, "source")
             b1 == IF isBetter(score, source, best)
                   THEN Best(score, [jid |-> contact.id,
                                     displayName |-> getDisplayName(contact)], source)
                   ELSE best
         IN IF b1.score >= SCORE_EXACT THEN [b1 EXCEPT !.returned = TRUE]
            ELSE scanVariants(contact, Tail(variants), query, b1)

\* findBestInMap over the entries of the map in iteration order
RECURSIVE findBestInMap(_, _, _)
findBestInMap(contactMap, query, best) ==
    IF contactMap = <<>> THEN best
    ELSE LET contact == Head(contactMap)
             b1 == IF eligible(contact.id)
                   THEN scanVariants(contact, getNameVariants(contact), query, best)
                   ELSE best
         IN IF b1.returned THEN b1
            ELSE findBestInMap(Tail(contactMap), query, b1)

\* findContact that scans the directory whatever the saved contacts score
findContact_noPriority(contacts, name, savedContacts) ==
    LET query == normalize(name)
        saved == findBestInMap(savedContacts, query, Best(0, NoMatch, None))
    IN IF query = "" THEN NoMatch
       ELSE findBestInMap(contacts, query,
                Best(saved.score, saved.match, saved.source)).match

\* findContact that lets a directory entry displace an equal saved one
findContact_tieToDirectory(contacts, name, savedContacts) ==
    LET query == normalize(name)
        saved == findBestInMap(savedContacts, query, Best(0, NoMatch, None))
        learned == findBestInMap(contacts, query, Best(0, NoMatch, None))
    IN IF query = "" THEN NoMatch
       ELSE IF saved.match.jid # None /\ saved.score >= SCORE_FIRST_NAME THEN saved.match
       ELSE IF learned.score >= saved.score THEN learned.match ELSE saved.match

\* findContact(contacts, name, savedContacts); an absent or empty
\* savedContacts is <<>>
findContact(contacts, name, savedContacts) ==
    LET query == normalize(name)
        saved == findBestInMap(savedContacts, query, Best(0, NoMatch, None))
    IN IF query = "" THEN NoMatch
       ELSE IF savedContacts # <<>>
            THEN IF saved.match.jid # None /\ saved.score >= SCORE_FIRST_NAME
                 THEN saved.match
                 ELSE findBestInMap(contacts, query,
                        Best(saved.score, saved.match, saved.source)).match
       ELSE findBestInMap(contacts, query, Best(0, NoMatch, None)).match

\* a caller matches a name against a learned directory and the saved
\* contacts of the uid
FindContact(uid, contacts, name) ==
    /\ last' = [Op("findContact", uid, 0, 0,
                   findContact(contacts, name, savedContactStore[uid].entries))
                    EXCEPT !.arg = [contacts |-> contacts, name |-> name]]
    /\ UNCHANGED <<watch, calls, reminders, nextId, remindersFile, clock, ticks, ledger, immediates, shadow, stale, sessions, orphans, retryState,
                   strayTimers, pendingInit, pendingLogout, listeners, inbox,
                   contactStore, lidToJid, savedContactStore, disk, archive, outbox,
                   consec, abandoned, streak, afterOpen>>

\* ------------------------------------------------------------------------
\* logoutSession
\* ------------------------------------------------------------------------
\* the tail of logoutSession: table removed, listeners told, auth cleared
logoutTail(uid) ==
    /\ contactStore' = [contactStore EXCEPT ![uid] = NoStore]
    /\ shadow' = IF shadow[uid].on THEN [shadow EXCEPT ![uid].store = NoStore] ELSE shadow
    /\ inbox' = emit(inbox, uid, Event("disconnected", "logged_out"))
    /\ archive' = [archive EXCEPT ![uid] = archiveSessionData(disk[uid], @, "logout")]
    /\ disk' = [disk EXCEPT ![uid] = clearSessionAuth(@)]
    /\ abandoned' = Watched(abandoned, [abandoned EXCEPT ![uid] = "logout"])
    /\ last' = Op("logout", uid, 0, 0, "done")

\* the head of logoutSession: the referenced timer is cleared, the retry
\* entry deleted
logoutHead(uid) ==
    /\ retryState' = [retryState EXCEPT ![uid] = NoRetry]
    /\ consec' = Watched(consec, [consec EXCEPT ![uid] = 0])
    /\ streak' = Watched(streak, [streak EXCEPT ![uid] = 0])
    /\ stale' = Watched(stale, [stale EXCEPT ![uid] = strayTimers[uid]])
    /\ UNCHANGED strayTimers

\* logoutSession(uid) when the map holds no session: runs to completion
LogoutNoSession(uid) ==
    /\ sessions[uid] = NoSession
    /\ logoutHead(uid)
    /\ logoutTail(uid)
    /\ UNCHANGED <<watch, calls, reminders, nextId, remindersFile, clock, ticks, ledger, immediates, sessions, orphans, pendingInit, pendingLogout, listeners,
                   lidToJid, savedContactStore, outbox, afterOpen>>

\* logoutSession(uid) when the map holds a session: suspends at
\* `await session.socket.logout()`
LogoutStart(uid) ==
    /\ sessions[uid] # NoSession
    /\ pendingLogout[uid] < MaxPendingLogout
    /\ logoutHead(uid)
    /\ pendingLogout' = [pendingLogout EXCEPT ![uid] = @ + 1]
    /\ last' = Op("logoutStart", uid, 0, 0, None)
    /\ UNCHANGED <<watch, calls, reminders, nextId, remindersFile, clock, ticks, ledger, immediates, shadow, sessions, orphans, pendingInit, listeners, inbox, contactStore,
                   lidToJid, savedContactStore, disk, archive, outbox,
                   abandoned, afterOpen>>

\* socket.logout() has resolved or thrown: sessions.delete, then the tail
LogoutFinish(uid) ==
    /\ pendingLogout[uid] > 0
    /\ pendingLogout' = [pendingLogout EXCEPT ![uid] = @ - 1]
    /\ sessions' = [sessions EXCEPT ![uid] = NoSession]
    /\ orphans' = IF Live(sessions[uid])
                  THEN [orphans EXCEPT ![uid] = @ (+) SetToBag({sessions[uid]})]
                  ELSE orphans
    /\ logoutTail(uid)
    /\ UNCHANGED <<watch, calls, reminders, nextId, remindersFile, clock, ticks, ledger, immediates, stale, retryState, strayTimers, pendingInit, listeners, lidToJid,
                   savedContactStore, outbox, consec, streak, afterOpen>>

\* ------------------------------------------------------------------------
\* Specification
\* ------------------------------------------------------------------------
\* hasContacts, waitForContacts
\* ------------------------------------------------------------------------
\* !!store && store.size > 0
hasContacts(uid) ==
    contactStore[uid].present /\ DOMAIN contactStore[uid].entries # {}

\* what a tool call was asked: absent parameters are None, an absent or
\* zero delay_minutes is 0; message stands for summary in send_recap_to_contact
Request(uid, contact_name, message, delay_minutes) ==
    [uid |-> uid, contact_name |-> contact_name, message |-> message,
     delay_minutes |-> delay_minutes]
NoRequest == Request(None, None, None, 0)

\* an async call suspended at an await: in the delay of iteration i of
\* waitForContacts (pc "delay"), or at socket.sendMessage (pc "send")
Call(op, pc, i, retries, req, jid) ==
    [op |-> op, pc |-> pc, i |-> i, retries |-> retries, req |-> req, jid |-> jid]

\* waitForContacts from iteration i without the check after the loop
waitFrom_noFinalCheck(uid, i, retries) ==
    IF i < retries
    THEN [done |-> hasContacts(uid), result |-> hasContacts(uid), i |-> i]
    ELSE [done |-> TRUE, result |-> FALSE, i |-> i]

\* waitForContacts from iteration i to its next await or its return: i
\* delays have elapsed
waitFrom(uid, i, retries) ==
    IF i < retries
    THEN [done |-> hasContacts(uid), result |-> hasContacts(uid), i |-> i]
    ELSE [done |-> TRUE, result |-> hasContacts(uid), i |-> i]

\* what one run of a handler does besides answering: the calls it leaves
\* suspended, the jids it hands to socket.sendMessage, the reminders it
\* schedules
Effect(op, code, delay, result, arg, write) ==
    [op |-> op, code |-> code, delay |-> delay, result |-> result, arg |-> arg,
     write |-> write, suspend |-> {}, send |-> {}, schedule |-> <<>>]

\* a Reminder; the id r_n is kept as n
Reminder(id, uid, message, target, targetName, fireAt) ==
    [id |-> id, uid |-> uid, message |-> message, target |-> target,
     targetName |-> targetName, fireAt |-> fireAt]

\* saveReminders: the pending reminders written to data/reminders.json
saveReminders(list) == [present |-> TRUE, raw |-> list]

\* scheduleReminder(uid, message, delayMinutes, target, targetName), s the
\* arguments after uid
scheduleReminder(uid, s) ==
    LET r == Reminder(nextId, uid, s.message, s.target, s.targetName,
                      clock + s.delayMinutes * 60000)
    IN
    /\ nextId' = nextId + 1
    /\ reminders' = Append(reminders, r)
    /\ remindersFile' = saveReminders(Append(reminders, r))
    /\ ledger' = [ledger EXCEPT !.scheduled = @ \cup {r}]

\* a run of a handler of the uid: resumed calls leave, suspended calls
\* enter, sends reach the socket, reminders are scheduled
Apply(uid, resumed, e) ==
    /\ calls' = [calls EXCEPT ![uid] = (@ \ resumed) \cup e.suspend]
    /\ outbox' = [outbox EXCEPT ![uid] = @ \cup e.send]
    /\ IF e.schedule = <<>>
       THEN UNCHANGED <<nextId, reminders, remindersFile, ledger>>
       ELSE scheduleReminder(uid, e.schedule[1])
    /\ last' = [Op(e.op, uid, e.code, e.delay, e.result)
                    EXCEPT !.arg = e.arg, !.write = e.write]
    /\ UNCHANGED <<watch, clock, ticks, immediates, shadow, stale, sessions, orphans,
                   retryState, strayTimers, pendingInit, pendingLogout, listeners,
                   inbox, contactStore, lidToJid, savedContactStore, disk, archive,
                   consec, abandoned, streak, afterOpen>>

\* waitForContacts returns or suspends again
waitEffect(uid, o, retries) ==
    IF o.done
    THEN Effect("waitForContacts", 0, o.i, o.result, retries, None)
    ELSE [Effect("waitForContacts.delay", 0, o.i, None, retries, None)
            EXCEPT !.suspend = {Call("waitForContacts", "delay", o.i, retries,
                                     NoRequest, None)}]

\* a caller invokes waitForContacts(uid, retries, delayMs)
WaitForContacts(uid, retries) ==
    /\ Cardinality(calls[uid]) < MaxCalls
    /\ \E e \in {waitEffect(uid, waitFrom(uid, 0, retries), retries)} :
            Apply(uid, {}, e)

\* the delay of a suspended waitForContacts elapses
WaitDelayElapsed(uid, c) ==
    /\ c \in calls[uid] /\ c.op = "waitForContacts" /\ c.pc = "delay"
    /\ \E e \in {waitEffect(uid, waitFrom(uid, c.i + 1, c.retries), c.retries)} :
            Apply(uid, {c}, e)

\* ------------------------------------------------------------------------
\* the chat-tool routes and the memory webhook
\* ------------------------------------------------------------------------
Routes == {"send_message", "send_recap_to_contact", "set_reminder"}

\* the retries the routes pass to waitForContacts
WAIT_RETRIES == 5

\* the parameter checks of a route: the error answered, or None
validate(route, req) ==
    IF req.uid = None THEN "Missing uid parameter"
    ELSE IF route # "set_reminder" /\ req.contact_name = None
         THEN "Missing required parameter: contact_name"
    ELSE IF req.message = None THEN "Missing required parameter: message"
    ELSE IF route = "set_reminder" /\ req.delay_minutes < 1
         THEN "Missing or invalid delay_minutes"
    ELSE None

\* the orders in which a Map of these entries can iterate
Iterations(entries) ==
    LET n == Cardinality(DOMAIN entries) IN
    {[i \in 1..n |-> entries[k[i]]] :
        k \in {f \in [1..n -> DOMAIN entries] :
                \A i, j \in 1..n : f[i] = f[j] => i = j}}

\* what the guard of sendMessage and of sendSelfMessage lets through
canSend(uid) == sessions[uid].connected
canSendSelf(uid) == sessions[uid].connected /\ sessions[uid].userJid # NoJid

\* sendSelfMessage called and not awaited: thrown at its guard, or handed to
\* the socket, whose outcome ok only reaches the log
selfSend(e, uid, ok) ==
    [e EXCEPT !.write = IF ~canSendSelf(uid) THEN "NotConnected"
                        ELSE IF ok THEN "sent" ELSE "failed",
              !.send = IF canSendSelf(uid) THEN {selfJid(sessions[uid].userJid)}
                       ELSE {}]

\* set_reminder from scheduleReminder on
toolSchedule(route, uid, req, target, targetName, ok) ==
    [selfSend(Effect(route, 200, 0, "Reminder set!", req, None), uid, ok)
        EXCEPT !.schedule = <<[message |-> req.message,
                               delayMinutes |-> req.delay_minutes,
                               target |-> target, targetName |-> targetName]>>]

\* findContact(contacts, contactName) of a route that names a contact
lookup(contacts, contactName) ==
    IF contactName = None THEN NoMatch ELSE findContact(contacts, contactName, <<>>)

\* a route that looks the contact up before it checks the wait's result
toolResolve_matchFirst(route, uid, req, synced, match, ok) ==
    IF match = NoMatch
    THEN Effect(route, 404, 0, "Could not find a WhatsApp contact", req, None)
    ELSE IF ~synced
    THEN Effect(route, 500, 0, "Contacts not synced yet", req, None)
    ELSE Effect(route, 200, 0, "sent", req, "sent")

\* a route from the return of waitForContacts to its answer or to the
\* await of sendMessage; match is what findContact(contacts, contactName)
\* returns on the directory of that moment
toolResolve(route, uid, req, synced, match, ok) ==
    IF ~synced
    THEN Effect(route, 500, 0, "Contacts not synced yet", req, None)
    ELSE IF match = NoMatch
    THEN Effect(route, 404, 0, "Could not find a WhatsApp contact", req, None)
    ELSE IF route = "set_reminder"
    THEN toolSchedule(route, uid, req, match.jid, match.displayName, ok)
    ELSE IF ~canSend(uid)
    THEN Effect(route, 500, 0, "Failed to send", req, "NotConnected")
    ELSE [Effect("tool.sendMessage", 0, 0, None, req, "invoked")
            EXCEPT !.suspend = {Call(route, "send", 0, 0, req, match.jid)},
                   !.send = {[user |-> match.jid, device |-> None]}]

\* a route in waitForContacts: on to its answer, or suspended in a delay
toolWait(route, uid, req, o, match, ok) ==
    IF o.done THEN toolResolve(route, uid, req, o.result, match, ok)
    ELSE [Effect("tool.delay", 0, o.i, None, req, None)
            EXCEPT !.suspend = {Call(route, "delay", o.i, WAIT_RETRIES, req, None)}]

\* a route from the request to its answer or its first await
toolHead(route, uid, req, match, ok) ==
    IF validate(route, req) # None
    THEN Effect(route, 400, 0, validate(route, req), req, None)
    ELSE IF ~isConnected(uid)
    THEN Effect(route, 401, 0, "WhatsApp not connected", req, None)
    ELSE IF route = "set_reminder" /\ req.contact_name = None
    THEN toolSchedule(route, uid, req, "self", "yourself", ok)
    ELSE LET o == waitFrom(uid, 0, WAIT_RETRIES) IN
         toolWait(route, uid, req, o, match, ok)

\* POST /tools/{route}: the directory iterates as contacts, the socket
\* resolves a send that is not awaited as ok
ToolCall(uid, route, req, contacts, ok) ==
    /\ Cardinality(calls[uid]) < MaxCalls
    /\ route = "set_reminder" => nextId <= MaxReminders
    /\ req.uid \in {None, uid}
    /\ contacts \in Iterations(contactStore[uid].entries)
    /\ \E match \in {lookup(contacts, req.contact_name)} :
       \E e \in {toolHead(route, uid, req, match, ok)} : Apply(uid, {}, e)

\* the delay of a route's waitForContacts elapses
ToolDelayElapsed(uid, c, contacts, ok) ==
    /\ c \in calls[uid] /\ c.op \in Routes /\ c.pc = "delay"
    /\ contacts \in Iterations(contactStore[uid].entries)
    /\ \E o \in {waitFrom(uid, c.i + 1, c.retries)} :
       \E match \in {lookup(contacts, c.req.contact_name)} :
       \E e \in {toolWait(c.op, uid, c.req, o, match, ok)} : Apply(uid, {c}, e)

\* the sendMessage a route awaits resolves (ok) or rejects
ToolSendDone(uid, c, ok) ==
    /\ c \in calls[uid] /\ c.op \in Routes /\ c.pc = "send"
    /\ \E e \in {IF ok THEN Effect(c.op, 200, 0, "sent", c.req, "sent")
                  ELSE Effect(c.op, 500, 0, "Failed to send", c.req, "failed")} :
            Apply(uid, {c}, e)

\* an OmiMemory: discarded, whether structured is there, structured.title
Memories ==
    LET m(d, s, t) == [discarded |-> d, structured |-> s, title |-> t] IN
    {m(FALSE, TRUE, "Lunch"), m(TRUE, TRUE, "Lunch"), m(FALSE, FALSE, ""),
     m(FALSE, TRUE, "")}

\* formatMemoryRecap: "" for a memory to skip, else lines of which the
\* first holds the title
formatMemoryRecap(memory) ==
    IF memory.discarded THEN ""
    ELSE IF ~memory.structured \/ memory.title = "" THEN ""
    ELSE "*" \o memory.title \o "*"

\* the memory handler without its connection check
webhookMemory_unchecked(uid, hasUid, memory, ok) ==
    LET arg == [uid |-> hasUid, memory |-> memory] IN
    IF ~hasUid THEN Effect("webhook.memory", 400, 0, "Missing uid query parameter", arg, None)
    ELSE IF memory.discarded \/ formatMemoryRecap(memory) = ""
    THEN Effect("webhook.memory", 200, 0, "ok", arg, None)
    ELSE selfSend(Effect("webhook.memory", 200, 0, "ok", arg, None), uid, ok)

\* POST /webhook/memory
webhookMemory(uid, hasUid, memory, ok) ==
    LET arg == [uid |-> hasUid, memory |-> memory] IN
    IF ~hasUid THEN Effect("webhook.memory", 400, 0, "Missing uid query parameter", arg, None)
    ELSE IF memory.discarded THEN Effect("webhook.memory", 200, 0, "ok", arg, None)
    ELSE IF formatMemoryRecap(memory) = ""
    THEN Effect("webhook.memory", 200, 0, "ok", arg, None)
    ELSE IF ~isConnected(uid) THEN Effect("webhook.memory", 200, 0, "ok", arg, None)
    ELSE selfSend(Effect("webhook.memory", 200, 0, "ok", arg, None), uid, ok)

WebhookMemory(uid, hasUid, memory, ok) ==
    \E e \in {webhookMemory(uid, hasUid, memory, ok)} : Apply(uid, {}, e)

\* ------------------------------------------------------------------------
\* the reminder service
\* ------------------------------------------------------------------------
\* the default intervalMs of startReminderTick
TICK_MS == 15000

\* reminders.json as a previous run left it: absent, or holding a reminder
ReminderFiles ==
    {NoFile} \cup {saveReminders(<<Reminder(1, uid, "hi", "self", "yourself", TICK_MS)>>) :
                        uid \in UIDs}

RECURSIVE maxId(_)
maxId(data) == IF data = <<>> THEN 0 ELSE Max(Head(data).id, maxId(Tail(data)))

\* loadReminders: the reminders of the file that are not yet due are
\* pushed, nextId follows the ids of the file, and a file that held more
\* is written again
loadReminders(list, file, now) ==
    LET data == file.raw
        loaded == list \o SelectSeq(data, LAMBDA r : r.fireAt > now)
    IN IF ~file.present THEN [reminders |-> list, nextId |-> nextId, file |-> file]
       ELSE [reminders |-> loaded, nextId |-> maxId(data) + 1,
             file |-> IF Len(data) # Len(loaded) THEN saveReminders(loaded) ELSE file]

\* startReminderTick: the file is loaded and the interval is set
StartReminderTick ==
    LET l == loadReminders(reminders, remindersFile, clock) IN
    /\ ~ticks.started
    /\ reminders' = l.reminders
    /\ nextId' = l.nextId
    /\ remindersFile' = l.file
    /\ ticks' = [ticks EXCEPT !.started = TRUE]
    /\ last' = Op("startReminderTick", None, 0, 0, None)
    /\ UNCHANGED <<watch, calls, clock, ledger, immediates, shadow, stale, sessions,
                   orphans, retryState, strayTimers, pendingInit, pendingLogout,
                   listeners, inbox, contactStore, lidToJid, savedContactStore, disk,
                   archive, outbox, consec, abandoned, streak, afterOpen>>

\* a caller schedules a reminder for the uid; the server takes requests
\* once startReminderTick has run
ScheduleReminder(uid, s) ==
    /\ ticks.started
    /\ Cardinality(ledger.scheduled) < MaxReminders
    /\ scheduleReminder(uid, s)
    /\ last' = Op("scheduleReminder", uid, 0, 0, nextId)
    /\ UNCHANGED <<watch, calls, clock, ticks, immediates, shadow, stale, sessions,
                   orphans, retryState, strayTimers, pendingInit, pendingLogout,
                   listeners, inbox, contactStore, lidToJid, savedContactStore, disk,
                   archive, outbox, consec, abandoned, streak, afterOpen>>

\* time passes
Advance ==
    /\ clock < MaxClock * TICK_MS
    /\ clock' = clock + TICK_MS
    /\ last' = Op("advance", None, 0, 0, None)
    /\ UNCHANGED <<watch, calls, reminders, nextId, remindersFile, ticks, ledger,
                   immediates, shadow, stale, sessions, orphans, retryState,
                   strayTimers, pendingInit, pendingLogout, listeners, inbox,
                   contactStore, lidToJid, savedContactStore, disk, archive, outbox,
                   consec, abandoned, streak, afterOpen>>

\* the loop of fireDueReminders over the due reminders left, up to its next
\* await: each is taken off the list, skipped when its uid is not
\* connected, else sent
RECURSIVE fireLoop(_, _)
fireLoop(due, list) ==
    IF due = <<>>
    THEN [reminders |-> list, send |-> <<>>, rest |-> <<>>, skipped |-> {}]
    ELSE LET reminder == Head(due)
             spliced == SelectSeq(list, LAMBDA r : r # reminder)
         IN IF ~isConnected(reminder.uid)
            THEN [fireLoop(Tail(due), spliced) EXCEPT !.skipped = @ \cup {reminder.id}]
            ELSE [reminders |-> spliced, send |-> <<reminder>>, rest |-> Tail(due),
                  skipped |-> {}]

\* the jids a reminder's send hands to the socket
reminderSend(reminder) ==
    IF reminder.target = "self"
    THEN IF canSendSelf(reminder.uid)
         THEN {selfJid(sessions[reminder.uid].userJid)} ELSE {}
    ELSE IF canSend(reminder.uid)
         THEN {[user |-> reminder.target, device |-> None]} ELSE {}

\* fireDueReminders from the due reminders left to its next await or its
\* end; met are the reminders a first tick at or after fireAt has come to,
\* owed those of them whose uid was connected at that tick
fireStep(resumed, due, hadDue, met, owed) ==
    LET f == fireLoop(due, reminders)
        sent == IF f.send = <<>> THEN {}
                ELSE {[id |-> f.send[1].id, fireAt |-> f.send[1].fireAt, at |-> clock]}
    IN
    /\ reminders' = f.reminders
    /\ ticks' = [ticks EXCEPT !.running =
                    (@ \ resumed) \cup (IF f.send = <<>> THEN {} ELSE {[rest |-> f.rest]})]
    /\ outbox' = IF f.send = <<>> THEN outbox
                 ELSE [outbox EXCEPT ![f.send[1].uid] = @ \cup reminderSend(f.send[1])]
    /\ remindersFile' = IF f.send = <<>> /\ hadDue THEN saveReminders(f.reminders)
                        ELSE remindersFile
    /\ ledger' = [ledger EXCEPT !.met = @ \cup met, !.owed = @ \cup owed,
                                !.fired = @ \cup sent]
    /\ last' = [Op("fireDueReminders", None, 0, 0, {s.id : s \in sent})
                    EXCEPT !.arg = f.skipped]
    /\ UNCHANGED <<watch, calls, nextId, clock, immediates, shadow, stale, sessions,
                   orphans, retryState, strayTimers, pendingInit, pendingLogout,
                   listeners, inbox, contactStore, lidToJid, savedContactStore, disk,
                   archive, consec, abandoned, streak, afterOpen>>

\* the interval fires: fireDueReminders runs on the reminders due now
Tick ==
    LET due == SelectSeq(reminders, LAMBDA r : r.fireAt <= clock)
        first == {r \in ledger.scheduled : r.fireAt <= clock /\ r.id \notin ledger.met}
    IN
    /\ ticks.started
    /\ Cardinality(ticks.running) < MaxTicks
    /\ fireStep({}, due, due # <<>>, {r.id : r \in first},
                {r.id : r \in {x \in first : isConnected(x.uid)}})

\* the send fireDueReminders awaits is over, resolved or rejected
TickSendDone(t) ==
    /\ t \in ticks.running
    /\ fireStep({t}, t.rest, TRUE, {}, {})

\* ------------------------------------------------------------------------
\* scripts/migrate-contacts.ts
\* ------------------------------------------------------------------------
\* a RawContact of an old contacts.json; an absent field is None
RawContact(id, name, notify, verifiedName, lid) ==
    [id |-> id, name |-> name, notify |-> notify, verifiedName |-> verifiedName,
     lid |-> lid]

\* raw.contacts && raw.lidMap
alreadyMigrated(raw) == "contacts" \in DOMAIN raw /\ "lidMap" \in DOMAIN raw

\* phase 1: the mapping from the JID-keyed entries that carry a lid
RECURSIVE buildLidMap(_, _)
buildLidMap(entries, lidMap) ==
    IF entries = <<>> THEN lidMap
    ELSE LET contact == Head(entries) IN
         buildLidMap(Tail(entries),
                     IF endsWith(contact.id, "@s.whatsapp.net") /\ Truthy(contact.lid)
                     THEN Put(lidMap, contact.lid, contact.id) ELSE lidMap)

\* the merge of a linked-id entry into existing: a name field is taken when
\* the entry has one and existing has none
mergeRaw(existing, contact, jid) ==
    [id |-> jid,
     name |-> IF Truthy(contact.name) /\ ~Truthy(existing.name)
              THEN contact.name ELSE existing.name,
     notify |-> IF Truthy(contact.notify) /\ ~Truthy(existing.notify)
                THEN contact.notify ELSE existing.notify,
     verifiedName |-> IF Truthy(contact.verifiedName) /\ ~Truthy(existing.verifiedName)
                      THEN contact.verifiedName ELSE existing.verifiedName,
     lid |-> None]

\* phase 2 on one entry of the old file
migrateEntry(contact, oldContacts, lidMap, m) ==
    LET key == contact.id
        jid == Get(lidMap, key)
        existing == IF MapHas(m.contacts, jid) THEN MapGet(m.contacts, jid)
                    ELSE IF MapHas(oldContacts, jid) THEN MapGet(oldContacts, jid)
                    ELSE RawContact(jid, None, None, None, None)
    IN IF endsWith(key, "@s.whatsapp.net")
       THEN [m EXCEPT !.contacts = MapSet(@, [contact EXCEPT !.lid = None])]
       ELSE IF endsWith(key, "@lid")
       THEN IF Truthy(jid)
            THEN [m EXCEPT !.contacts = MapSet(@, mergeRaw(existing, contact, jid)),
                           !.merged = @ + 1]
            ELSE IF Truthy(contact.name) \/ Truthy(contact.notify)
            THEN [m EXCEPT !.contacts = MapSet(@, contact)]
            ELSE [m EXCEPT !.dropped = @ + 1]
       ELSE m

\* phase 2: the entries of the old file in its order
RECURSIVE migrateLoop(_, _, _, _)
migrateLoop(entries, oldContacts, lidMap, m) ==
    IF entries = <<>> THEN m
    ELSE migrateLoop(Tail(entries), oldContacts, lidMap,
                     migrateEntry(Head(entries), oldContacts, lidMap, m))

\* migrate on the entries of an old-format file: the payload and the counts
migrate(oldContacts) ==
    LET lidMap == buildLidMap(oldContacts, Empty)
        m == migrateLoop(oldContacts, oldContacts, lidMap,
                         [contacts |-> <<>>, merged |-> 0, dropped |-> 0])
    IN [contacts |-> m.contacts, lidMap |-> lidMap, merged |-> m.merged,
        dropped |-> m.dropped]

\* the object JSON.stringify writes for newContacts
asObject(contacts) ==
    [k \in {contacts[i].id : i \in 1..Len(contacts)} |-> MapGet(contacts, k)]

\* the script on the session directory of the uid, whose contacts.json
\* lists its entries in the order oldContacts
Migrate(uid, oldContacts) ==
    LET file == disk[uid].contacts IN
    /\ file.present
    /\ oldContacts \in Iterations(IF alreadyMigrated(file.raw) THEN Empty ELSE file.raw)
    /\ \E m \in {migrate(oldContacts)} :
        /\ disk' = IF alreadyMigrated(file.raw) THEN disk
                   ELSE [disk EXCEPT ![uid].contacts.raw =
                            [contacts |-> asObject(m.contacts), lidMap |-> m.lidMap]]
        /\ last' = IF alreadyMigrated(file.raw)
                   THEN Op("migrate-skip", uid, 0, 0, None)
                   ELSE [Op("migrate", uid, 0, 0, m)
                            EXCEPT !.arg = oldContacts, !.write = file.raw]
    /\ UNCHANGED <<watch, calls, reminders, nextId, remindersFile, clock, ticks, ledger,
                   immediates, shadow, stale, sessions, orphans, retryState,
                   strayTimers, pendingInit, pendingLogout, listeners, inbox,
                   contactStore, lidToJid, savedContactStore, archive, outbox,
                   consec, abandoned, streak, afterOpen>>

\* ------------------------------------------------------------------------
\* index.ts: the middleware in front of the tool routes
\* ------------------------------------------------------------------------
\* UID_REGEX.test(uid): one or more of a-z, A-Z, 0-9, _ and -
sanitizeUid(uid) ==
    /\ uid # ""
    /\ keepChars(uid, Letters \cup {CharAt(UpperCase, i) : i \in 1..Len(UpperCase)}
                        \cup Digits \cup {"_", "-"}) = uid

\* fs.existsSync(path.join('sessions', uid)); others are the directories of
\* uids whose sessions are not followed here
sessionKnown(uid, others) ==
    IF uid \in UIDs THEN disk[uid].exists ELSE uid \in others

\* a request to a tool route: the JSON body and the uid of the query string
HttpRequest(query, body) ==
    [uid |-> body.uid, contact_name |-> body.contact_name, message |-> body.message,
     delay_minutes |-> body.delay_minutes, query |-> query]

\* POST /tools/{route}?uid=query with the JSON body: the uid sanitization
\* middleware, the session validation middleware, then the route up to its
\* answer or its first await, on the uid the route picks
ToolRequest(query, route, body, others, ok) ==
    LET checked == IF Truthy(query) THEN query ELSE body.uid
        uid == IF Truthy(body.uid) THEN body.uid ELSE query
        req == HttpRequest(query, [body EXCEPT !.uid = uid])
        answer == IF Truthy(checked) /\ ~sanitizeUid(checked)
                  THEN Effect("sanitize", 400, 0, "Invalid uid format", req, None)
                  ELSE IF Truthy(checked) /\ ~sessionKnown(checked, others)
                  THEN Effect("session", 403, 0,
                              "Unknown session. Please set up WhatsApp first.", req, None)
                  ELSE IF validate(route, req) # None
                  THEN Effect(route, 400, 0, validate(route, req), req, None)
                  ELSE Effect(route, 401, 0, "WhatsApp not connected", req, None)
    IN IF answer.op = route /\ uid \in UIDs
       THEN \E contacts \in Iterations(contactStore[uid].entries) :
                ToolCall(uid, route, req, contacts, ok)
       ELSE /\ last' = [Op(answer.op, IF answer.op = route THEN uid ELSE checked,
                           answer.code, 0, answer.result) EXCEPT !.arg = req]
            /\ UNCHANGED <<watch, calls, reminders, nextId, remindersFile, clock, ticks,
                           ledger, immediates, shadow, stale, sessions, orphans,
                           retryState, strayTimers, pendingInit, pendingLogout,
                           listeners, inbox, contactStore, lidToJid, savedContactStore,
                           disk, archive, outbox, consec, abandoned, streak, afterOpen>>

\* ------------------------------------------------------------------------
\* connect requests and the socket's lifecycle events
Lifecycle(uid, maxLoad, qrs, users) ==
    \/ InitSession(uid, maxLoad)
    \/ \E origin \in {"manual", "auto"} : InitSessionResume(uid, origin)
    \/ TimerFire(uid)
    \/ \E r \in Refs(uid), q \in qrs : QrUpdate(uid, r, q)
    \/ \E r \in Refs(uid), user \in users : OpenUpdate(uid, r, user)
    \/ \E r \in Refs(uid), code \in StatusCodes : CloseUpdate(uid, r, code)

Logout(uid) ==
    \/ LogoutNoSession(uid)
    \/ LogoutStart(uid)
    \/ LogoutFinish(uid)

\* connect, reconnect, disconnect, logout
Next ==
    \E uid \in UIDs :
        \/ Lifecycle(uid, MaxLoad, QRCodes, {SocketUser})
        \/ Logout(uid)

Spec == Init /\ [][Next]_vars

\* the same with the observers of the setup page
NextListen ==
    \E uid \in UIDs :
        \/ Lifecycle(uid, MaxLoad, QRCodes, {SocketUser})
        \/ Logout(uid)
        \/ \E cb \in Callbacks : Subscribe(uid, cb)
        \/ \E cb \in Callbacks : Unsubscribe(uid, cb)

SpecListen == InitQuiet /\ [][NextListen]_vars

\* the same with the callers that send
NextSend ==
    \E uid \in UIDs :
        \/ Lifecycle(uid, MaxLoad, {"qr1"}, {SocketUser, NoJid})
        \/ Logout(uid)
        \/ SendSelfMessage(uid)
        \/ \E jid \in Targets : SendMessage(uid, [user |-> jid, device |-> None])

SpecSend == InitQuiet /\ [][NextSend]_vars

\* the same with the writers of the session directory
NextDisk ==
    \E uid \in UIDs :
        \/ Lifecycle(uid, MaxLoadDisk, {"qr1"}, {SocketUser})
        \/ Logout(uid)
        \/ \E r \in Refs(uid) : CredsUpdate(uid, r)
        \/ \E r \in Refs(uid) : ContactsUpsert(uid, r, DiskBatch, TRUE)
        \/ \E jid \in SavedJids : SaveContact(uid, "Mom", jid, "manual")

SpecDisk == InitQuiet /\ [][NextDisk]_vars

\* the contact directory from a restart: connect requests, the socket's
\* open and close, its contact and message events, the readers
NextDir ==
    \E uid \in UIDs :
        \/ InitSession(uid, MaxLoadDisk)
        \/ InitSessionResume(uid, "manual")
        \/ \E r \in Refs(uid) : OpenUpdate(uid, r, SocketUser)
        \/ \E r \in Refs(uid) : CloseUpdate(uid, r, serverRejected)
        \/ \E r \in Refs(uid), cs \in ContactBatches, ok \in BOOLEAN :
                ContactsUpsert(uid, r, cs, ok)
        \/ \E r \in Refs(uid), cs \in ContactBatches : ContactsUpdate(uid, r, cs, TRUE)
        \/ \E r \in Refs(uid), ms \in MessageBatches : MessagesUpsert(uid, r, ms, TRUE)
        \/ GetContacts(uid)

SpecDir == InitRestart /\ [][NextDir]_vars

\* history batches next to the contact events of the same socket
NextHistory ==
    \E uid \in UIDs :
        \/ InitSession(uid, MaxLoadDisk)
        \/ InitSessionResume(uid, "manual")
        \/ \E r \in Refs(uid) : OpenUpdate(uid, r, SocketUser)
        \/ \E r \in Refs(uid), h \in HistoryBatches : HistorySet(uid, r, h)
        \/ RunImmediate(uid, TRUE)
        \/ \E r \in Refs(uid), cs \in ContactBatches : ContactsUpsert(uid, r, cs, TRUE)
        \/ \E r \in Refs(uid), ms \in MessageBatches : MessagesUpsert(uid, r, ms, TRUE)

SpecHistory == InitQuiet /\ [][NextHistory]_vars

\* the callers that wait for the directory: the chat tools and the memory
\* webhook next to the socket's open and close and its contact events
ToolRequests(uid) ==
    {Request(uid, "ann", "hi", 1), Request(uid, "z", "hi", 1),
     Request(uid, None, "hi", 1), Request(None, "ann", "hi", 1),
     Request(uid, "ann", None, 1), Request(uid, "ann", "hi", 0)}

NextTools ==
    \E uid \in UIDs :
        \/ InitSession(uid, MaxLoadDisk)
        \/ InitSessionResume(uid, "manual")
        \/ \E r \in Refs(uid) : OpenUpdate(uid, r, SocketUser)
        \/ \E r \in Refs(uid) : CloseUpdate(uid, r, serverRejected)
        \/ \E r \in Refs(uid) : ContactsUpsert(uid, r, DiskBatch, TRUE)
        \/ \E retries \in 0..MaxRetries : WaitForContacts(uid, retries)
        \/ \E c \in calls[uid] : WaitDelayElapsed(uid, c)
        \/ \E route \in Routes, req \in ToolRequests(uid), ok \in BOOLEAN :
                \E contacts \in Iterations(contactStore[uid].entries) :
                    ToolCall(uid, route, req, contacts, ok)
        \/ \E c \in calls[uid], ok \in BOOLEAN :
                \E contacts \in Iterations(contactStore[uid].entries) :
                    ToolDelayElapsed(uid, c, contacts, ok)
        \/ \E c \in calls[uid], ok \in BOOLEAN : ToolSendDone(uid, c, ok)
        \/ \E hasUid \in BOOLEAN, memory \in Memories, ok \in BOOLEAN :
                WebhookMemory(uid, hasUid, memory, ok)

SpecTools == InitQuiet /\ [][NextTools]_vars

\* the reminder service from a start: the file a previous run left, the
\* tick, the callers that schedule, next to the socket's open and close
InitReminder ==
    /\ \E file \in ReminderFiles, now \in {0, 2 * TICK_MS} :
            LoadedAt([u \in UIDs |-> NoDir], [u \in UIDs |-> NoSaved], file, now)
    /\ watch = FALSE

NextReminder ==
    \/ StartReminderTick
    \/ Advance
    \/ Tick
    \/ \E t \in ticks.running : TickSendDone(t)
    \/ \E uid \in UIDs :
        \/ InitSession(uid, MaxLoadDisk)
        \/ InitSessionResume(uid, "manual")
        \/ \E r \in Refs(uid) : OpenUpdate(uid, r, SocketUser)
        \/ \E r \in Refs(uid) : CloseUpdate(uid, r, serverRejected)
        \/ ScheduleReminder(uid, [message |-> "hi", delayMinutes |-> 1,
                                  target |-> "self", targetName |-> "yourself"])

SpecReminder == InitReminder /\ [][NextReminder]_vars

\* the migration script on the session directories a previous version left
OldEntries ==
    {RawContact("j1@s.whatsapp.net", n, None, None, l) :
        n \in {None, "Ann"}, l \in {None, "l1@lid"}}
    \cup {RawContact("l1@lid", n, f, v, None) :
            n \in {None, "Lin"}, f \in {None, "nick"}, v \in {None, "Biz"}}
    \cup {RawContact("g1@g.us", "Team", None, None, None)}

\* old flat files: at most one entry for each key
OldFiles ==
    {[present |-> TRUE, raw |-> [k \in {c.id : c \in cs} |-> CHOOSE c \in cs : c.id = k]] :
        cs \in {x \in SUBSET OldEntries :
                    x # {} /\ \A c, d \in x : c.id = d.id => c = d}}

MigrateDirs ==
    {[exists |-> TRUE, auth |-> TRUE, contacts |-> f, saved |-> NoFile] :
        f \in OldFiles \cup {x \in CachedFiles : alreadyMigrated(x.raw)}}

InitMigrate == (\E dirs \in [UIDs -> MigrateDirs] : Booted(dirs)) /\ watch = FALSE

NextMigrate ==
    \E uid \in UIDs :
        \E oldContacts \in Iterations(IF alreadyMigrated(disk[uid].contacts.raw)
                                      THEN Empty ELSE disk[uid].contacts.raw) :
            Migrate(uid, oldContacts)

SpecMigrate == InitMigrate /\ [][NextMigrate]_vars

\* the matcher on contacts whose name fields fall into different tiers
ScoreNames == {"An", "X An", "An X", "Ana", "Han", "Am", "Zz"}
ScoreQueries == {"An", "X An"}
ScoreDirectories ==
    {<<[id |-> "j1@s.whatsapp.net", name |-> n, notify |-> f]>> :
        n \in ScoreNames, f \in ScoreNames \cup {None}}

NextScore ==
    \E uid \in UIDs :
        \E contacts \in ScoreDirectories, name \in ScoreQueries :
            FindContact(uid, contacts, name)

SpecScore == InitQuiet /\ [][NextScore]_vars

\* the tool routes behind the middleware: the uid of the query string and
\* the uid of the body are the caller's, next to connect requests and the
\* socket's open
HttpUids == {None, "u1", "u0", "../x"}
OtherSessions == {"u0"}

NextHttp ==
    \/ \E uid \in UIDs :
        \/ InitSession(uid, MaxLoadDisk)
        \/ InitSessionResume(uid, "manual")
        \/ \E r \in Refs(uid) : OpenUpdate(uid, r, SocketUser)
        \/ \E c \in calls[uid] :
                \E contacts \in Iterations(contactStore[uid].entries) :
                    ToolDelayElapsed(uid, c, contacts, TRUE)
    \/ \E query \in HttpUids, b \in HttpUids, route \in Routes :
            ToolRequest(query, route, Request(b, "ann", "hi", 1), OtherSessions, TRUE)

SpecHttp == InitQuiet /\ [][NextHttp]_vars

\* the saved contacts from a restart: the table's writers, the load in
\* initSession, and the matcher over the table
InitSaved == (\E dirs \in [UIDs -> SavedDirs] : Booted(dirs)) /\ watch = FALSE

NextSaved ==
    \E uid \in UIDs :
        \/ InitSession(uid, MaxLoadDisk)
        \/ InitSessionResume(uid, "manual")
        \/ \E name \in SavedNames, source \in {"manual", "import"} :
                SaveContact(uid, name, "1234567@s.whatsapp.net", source)
        \/ \E batch \in ImportBatches : ImportContacts(uid, batch)
        \/ \E jid \in SavedJids : DeleteContact(uid, jid)

SpecSaved == InitSaved /\ [][NextSaved]_vars

\* the matcher: the saved contacts of the uid are a table that up to
\* MaxSaves calls of saveContact have built, the learned directory and the
\* name are the caller's
RECURSIVE SavedTables(_)
SavedTables(n) ==
    IF n = 0 THEN {NoSaved}
    ELSE SavedTables(n - 1) \cup
         {saveContact(t, name, jid, source).store :
            t \in SavedTables(n - 1), name \in SavedNames, jid \in SavedJids,
            source \in {"manual", "import"}}

InitMatch ==
    /\ \E t \in [UIDs -> SavedTables(MaxSaves)] :
            Loaded([u \in UIDs |-> persistSavedContacts(NoDir, t[u])], t)
    /\ watch = FALSE

NextMatch ==
    \E uid \in UIDs :
        \E contacts \in Directories, name \in Queries : FindContact(uid, contacts, name)

SpecMatch == InitMatch /\ [][NextMatch]_vars

\* ------------------------------------------------------------------------
\* Claims on the connection lifecycle (Spec)
\* ------------------------------------------------------------------------
\* a timer callback calls initSession, or a call it made creates the socket
ReconnectAttempt(uid) ==
    /\ last.uid = uid
    /\ \/ last.op = "timer"
       \/ last.op = "initSessionResume" /\ last.result = "auto"

RetriableClose(uid) ==
    last.op = "close" /\ last.uid = uid /\ last.code \notin {401, 405}

\* C1: at most one live connection (a created socket with its handlers
\* registered that has not closed) exists for a uid at any moment.
C1_OneLiveConnection ==
    \A uid \in UIDs : LiveSockets(uid) <= 1

\* C2: a close with a non-retriable code (401, 405) removes the session of
\* the uid from the map, and no reconnect attempt for the uid follows it.
C2_NonRetriableIsFinal ==
    \A uid \in UIDs :
        /\ (last.op = "close" /\ last.uid = uid /\ last.code \in {401, 405})
            => sessions[uid] = NoSession
        /\ abandoned[uid] = "terminal" => ~ReconnectAttempt(uid)

\* C3 as stated: the k-th consecutive retriable disconnect with no open in
\* between schedules the next attempt after min(2000 * 2^(k-1), 60000) ms
\* (a logout is taken to start the count afresh).
C3_KthDisconnectDelay ==
    \A uid \in UIDs :
        RetriableClose(uid) =>
            IF consec[uid] < MaxConsec
            THEN last.delay = Min(2000 * 2^(consec[uid] - 1), 60000)
            ELSE last.delay >= Min(2000 * 2^(consec[uid] - 1), 60000)

\* C3 amended: counting the retriable disconnects since the retry state was
\* last cleared (open, non-retriable disconnect, logout, give-up), the k-th
\* one schedules the next attempt after min(2000 * 2^(k-1), 60000) ms for
\* k <= 5, a delay that grows strictly with k and stays below the cap; the
\* 6th schedules nothing.
C3_BackoffSinceReset ==
    \A uid \in UIDs :
        RetriableClose(uid) =>
            /\ streak[uid] \in 1..6
            /\ streak[uid] <= 5 =>
                /\ last.result = "scheduled"
                /\ last.delay = Min(2000 * 2^(streak[uid] - 1), 60000)
                /\ last.delay <= 60000
                /\ streak[uid] > 1 => last.delay > Min(2000 * 2^(streak[uid] - 2), 60000)
                /\ retryState[uid].timer = "pending"
            /\ streak[uid] = 6 =>
                /\ last.result = "gaveup"
                /\ last.delay = 0

\* the fifth retriable disconnect in a row has scheduled 32 s
C3_Witness ==
    \E uid \in UIDs :
        RetriableClose(uid) /\ streak[uid] = 5 /\ last.delay = 32000

\* C4: once more than 5 consecutive retriable disconnects have occurred
\* without an open, the session is removed, the retry state cleared and no
\* reconnect is scheduled or attempted until connect is requested again.
C4_GiveUpIsFinal ==
    \A uid \in UIDs :
        /\ (RetriableClose(uid) /\ last.result = "gaveup") =>
                sessions[uid] = NoSession /\ retryState[uid] = NoRetry
        /\ abandoned[uid] = "gaveup" =>
                /\ ArmedTimers(uid) = 0
                /\ ~ReconnectAttempt(uid)

\* C5: the first retriable disconnect after an open schedules a reconnect
\* with the base delay (2 s) and the full retry budget (attempt 1 of 5),
\* however many failures preceded that open.
C5_OpenResetsRetries ==
    \A uid \in UIDs :
        (RetriableClose(uid) /\ afterOpen[uid].opened /\ afterOpen[uid].closes = 1) =>
            /\ last.result = "scheduled"
            /\ last.delay = 2000
            /\ retryState[uid].attempts = 1

\* the first retriable disconnect after an open that followed failures
C5_Witness ==
    \E uid \in UIDs :
        /\ RetriableClose(uid)
        /\ afterOpen[uid].opened /\ afterOpen[uid].afterFailures
        /\ afterOpen[uid].closes = 1
        /\ last.delay = 2000

\* C6: initSession(uid) while the session of uid is connected creates no
\* socket and leaves the session map, the retry state, the contact table,
\* the linked-id map and the listeners unchanged.
C6_ConnectedInitIsNoop ==
    [][\A uid \in UIDs :
        (isConnected(uid) /\ last'.op = "initSession" /\ last'.uid = uid)
            => UNCHANGED progVars]_vars

\* initSession has just returned early, with a retry entry in place
C6_Witness ==
    \E uid \in UIDs :
        /\ last.op = "initSession" /\ last.uid = uid /\ last.result = "noop"
        /\ isConnected(uid)
        /\ retryState[uid] # NoRetry

\* ------------------------------------------------------------------------
\* Claims on sending (SpecSend), subscribing (SpecListen), the disk (SpecDisk)
\* ------------------------------------------------------------------------
\* C7: sendSelfMessage and sendMessage fail with the not-connected error
\* and hand nothing to the transport whenever no session with connected =
\* true exists for the uid.
C7_SendNeedsConnection ==
    [][\A uid \in UIDs :
        (/\ ~isConnected(uid)
         /\ last'.uid = uid
         /\ last'.op \in {"sendSelfMessage", "sendMessage"})
            => last'.result = "NotConnected" /\ outbox' = outbox]_vars

\* sendMessage has failed for a session that is closed and waits for its
\* backoff timer
C7_Witness ==
    \E uid \in UIDs :
        /\ last.op = "sendMessage" /\ last.uid = uid
        /\ last.result = "NotConnected"
        /\ sessions[uid].sock = "closed"
        /\ retryState[uid].timer = "pending"

\* C8: subscribe(uid, cb) calls cb at once with `connected` when the
\* session is connected and with the pending auth code when there is one.
C8_SubscribeReplays ==
    \A uid \in UIDs, cb \in Callbacks :
        (last.op = "subscribe" /\ last.uid = uid /\ last.result = cb) =>
            /\ sessions[uid].connected => inbox[cb] = [type |-> "connected", data |-> None]
            /\ (~sessions[uid].connected /\ sessions[uid].qr # None) =>
                    inbox[cb] = [type |-> "qr", data |-> sessions[uid].qr]

\* a subscriber has just been handed the second auth code of the session
C8_Witness ==
    \E uid \in UIDs, cb \in Callbacks :
        /\ last.op = "subscribe" /\ last.uid = uid /\ last.result = cb
        /\ sessions[uid].qr = "qr2" /\ ~sessions[uid].connected
        /\ inbox[cb] = [type |-> "qr", data |-> "qr2"]

C10_OnlyLoggedOutWipes ==
    [][\A uid \in UIDs :
        (last'.op = "close" /\ last'.uid = uid) =>
            /\ last'.code = 401 =>
                /\ sessions'[uid] = NoSession
                /\ ~disk'[uid].auth
                /\ ~disk'[uid].contacts.present
                /\ disk'[uid].saved = disk[uid].saved
            /\ last'.code = 405 =>
                /\ sessions'[uid] = NoSession
                /\ disk'[uid] = disk[uid]
                /\ archive'[uid] = archive[uid]]_vars

\* a 405 close has left auth files, contacts and saved contacts on disk
C10_Witness ==
    \E uid \in UIDs :
        /\ last.op = "close" /\ last.uid = uid /\ last.code = 405
        /\ sessions[uid] = NoSession
        /\ disk[uid].auth
        /\ disk[uid].contacts.present
        /\ disk[uid].saved.present

\* ------------------------------------------------------------------------
\* Claims on timers (Spec)
\* ------------------------------------------------------------------------
\* C11: a backoff timer that was scheduled before the last open or the last
\* logout of the uid does not start a connect attempt when it fires.
C11_StaleTimersStartNothing ==
    [][\A uid \in UIDs :
        (last'.op = "timer" /\ last'.uid = uid /\ stale'[uid] < stale[uid])
            => pendingInit'[uid] = pendingInit[uid]]_vars

\* ------------------------------------------------------------------------
\* Claims on the contact directory (SpecDir, SpecHistory)
\* ------------------------------------------------------------------------
\* C12: once a linked-id -> canonical-id mapping is recorded, the contact
\* table of the uid has no entry keyed by that linked id.
C12_KeyedByCanonicalId ==
    \A uid \in UIDs :
        \A lid \in DOMAIN lidToJid[uid].entries :
            lid \notin DOMAIN contactStore[uid].entries

C14_NameNeverRegresses ==
    \A uid \in UIDs :
        \A jid \in DOMAIN contactStore[uid].entries :
            Truthy(contactStore[uid].entries[jid].name) =>
                /\ \A c \in Contacts :
                        ~Truthy(c.name) =>
                            upsertContact(Dir(uid), c).store.entries[jid].name
                                = contactStore[uid].entries[jid].name
                /\ \A m \in Messages, bare \in BOOLEAN :
                        enrichMessage(Dir(uid), m, bare).store.entries[jid].name
                            = contactStore[uid].entries[jid].name

\* a message has filled the notify of a contact that keeps its name
C14_Witness ==
    \E uid \in UIDs, j \in Jids :
        /\ last.op = "messages.upsert" /\ last.uid = uid /\ last.write = "written"
        /\ j \in DOMAIN contactStore[uid].entries
        /\ contactStore[uid].entries[j].name = "Ann"
        /\ contactStore[uid].entries[j].notify = "push"

\* C15: for every directory state and every incoming record, upsertContact
\* applied twice yields the table and the linked-id map of applying it once.
C15_UpsertIdempotent ==
    \A uid \in UIDs :
        \A c \in Contacts :
            LET d1 == upsertContact(Dir(uid), c)
                d2 == upsertContact(d1, c)
            IN d2.store = d1.store /\ d2.lmap = d1.lmap

\* upserts have built an entry with a name and a linked id
C15_Witness ==
    \E uid \in UIDs, j \in Jids, l \in Lids :
        /\ last.op = "contacts.upsert" /\ last.uid = uid
        /\ j \in DOMAIN contactStore[uid].entries
        /\ contactStore[uid].entries[j].name = "Ann"
        /\ contactStore[uid].entries[j].lid = l
        /\ Get(lidToJid[uid].entries, l) = j

\* C16: a turn of enrichContactsFromMessages changes no stored name and no
\* non-empty stored notify; a turn of enrichContactsFromChats changes no
\* non-empty stored name; neither adds a key that is not a canonical id, and
\* a group, the broadcast and an unmapped linked id change nothing.
C16_EnrichmentFillsGaps ==
    \A uid \in UIDs :
        LET old == contactStore[uid].entries
            Ignored(id) == \/ IsGroup(id) \/ id = Broadcast
                           \/ (IsLid(id) /\ id \notin DOMAIN lidToJid[uid].entries)
        IN
        /\ \A m \in Messages, bare \in BOOLEAN :
            LET d == enrichMessage(Dir(uid), m, bare) IN
            /\ \A k \in DOMAIN old :
                /\ d.store.entries[k].name = old[k].name
                /\ Truthy(old[k].notify) => d.store.entries[k].notify = old[k].notify
            /\ DOMAIN d.store.entries \ DOMAIN old \subseteq Jids
            /\ Ignored(m.id) => d = Dir(uid)
        /\ \A ch \in Chats :
            LET d == enrichChat(Dir(uid), ch) IN
            /\ \A k \in DOMAIN old :
                Truthy(old[k].name) => d.store.entries[k].name = old[k].name
            /\ DOMAIN d.store.entries \ DOMAIN old \subseteq Jids
            /\ Ignored(ch.id) => d = Dir(uid)

\* the callback of a history batch whose chat and message name the contact
\* has run over an entry with a name and a notify and left both
C16_Witness ==
    \E uid \in UIDs, j \in Jids :
        /\ last.op = "setImmediate" /\ last.uid = uid
        /\ last.arg.chats = <<[id |-> j, name |-> "Bea"]>>
        /\ last.arg.messages = <<[id |-> j, pushName |-> "push"]>>
        /\ j \in DOMAIN contactStore[uid].entries
        /\ contactStore[uid].entries[j].name = "Ann"
        /\ contactStore[uid].entries[j].notify = "nick"

\* C17: when the last queued callback of a history batch has run, the table
\* and the linked-id map are the ones the delivered events give when each is
\* applied in full before the next.
C17_EventsApplyInOrder ==
    [][\A uid \in UIDs :
        (immediates[uid] # <<>> /\ immediates'[uid] = <<>>) =>
            /\ contactStore'[uid] = shadow[uid].store
            /\ lidToJid'[uid] = shadow[uid].lmap]_vars

\* C18: a non-empty table written by persistContacts and read back by
\* loadCachedContacts into an empty state gives the same table and the same
\* linked-id map; a flat file gives a table equal to its content and an
\* empty linked-id map.
C18_PersistLoadRoundTrip ==
    /\ \A uid \in UIDs :
        (contactStore[uid].present /\ DOMAIN contactStore[uid].entries # {}) =>
            LET d == persistContacts([disk[uid] EXCEPT !.exists = TRUE],
                                     contactStore[uid], lidToJid[uid], TRUE)
            IN /\ loadCachedContacts(NoStore, d.contacts).entries = contactStore[uid].entries
               /\ loadCachedLids(NoStore, d.contacts).entries = lidToJid[uid].entries
    /\ \A f \in CachedFiles :
        "contacts" \notin DOMAIN f.raw =>
            /\ loadCachedContacts(NoStore, f).entries = f.raw
            /\ loadCachedLids(NoStore, f).entries = Empty

\* a file in the current format with a linked-id mapping has been loaded and
\* the table and the map in memory are its content
C18_Witness ==
    \E uid \in UIDs :
        /\ last.op = "initSessionResume" /\ last.uid = uid
        /\ disk[uid].contacts.present
        /\ "lidMap" \in DOMAIN disk[uid].contacts.raw
        /\ DOMAIN disk[uid].contacts.raw.lidMap # {}
        /\ contactStore[uid].entries = disk[uid].contacts.raw.contacts
        /\ lidToJid[uid].entries = disk[uid].contacts.raw.lidMap

\* C19: while the session of a uid has a socket, every key of a contacts.json
\* on disk is in the table in memory (the cache was loaded before the socket
\* could deliver anything), and a route that reads the directory of a uid
\* with a non-empty contacts.json does not get an empty one.
C19_CacheLoadedBeforeConnection ==
    \A uid \in UIDs :
        /\ (Live(sessions[uid]) /\ disk[uid].contacts.present) =>
                DOMAIN contactData(disk[uid].contacts.raw)
                    \subseteq DOMAIN contactStore[uid].entries
        /\ (last.op = "getContacts" /\ last.uid = uid
            /\ disk[uid].contacts.present
            /\ DOMAIN contactData(disk[uid].contacts.raw) # {})
                => last.result = "contacts"

\* after a restart a route has read the directory while contacts.json is
\* still the flat file of the previous run: what it got came from the cache
C19_Witness ==
    \E uid \in UIDs :
        /\ last.op = "getContacts" /\ last.uid = uid /\ last.result = "contacts"
        /\ disk[uid].contacts.present
        /\ "contacts" \notin DOMAIN disk[uid].contacts.raw
        /\ contactStore[uid].entries = disk[uid].contacts.raw

\* C20: when the write of persistContacts fails in contacts.upsert, the
\* handler returns normally, the disk is as it was, and the table and the
\* map in memory hold the upsert of the batch.
C20_FailedWriteIsLogged ==
    [][\A uid \in UIDs :
        (last'.op = "contacts.upsert" /\ last'.uid = uid /\ last'.write = "failed") =>
            /\ last'.result = "done"
            /\ disk'[uid] = disk[uid]
            /\ contactStore'[uid] = upsertAll(Dir(uid), last'.arg).store
            /\ lidToJid'[uid] = upsertAll(Dir(uid), last'.arg).lmap
            /\ DOMAIN contactStore'[uid].entries # {}]_vars

\* a named contact is in memory after a failed write, no contacts.json on disk
C20_Witness ==
    \E uid \in UIDs, j \in Jids :
        /\ last.op = "contacts.upsert" /\ last.uid = uid
        /\ last.write = "failed" /\ last.result = "done"
        /\ j \in DOMAIN contactStore[uid].entries
        /\ contactStore[uid].entries[j].name = "Ann"
        /\ ~disk[uid].contacts.present

\* ------------------------------------------------------------------------
\* Claims on the saved contacts (SpecSaved)
\* ------------------------------------------------------------------------
\* the step is a write with source import for the uid
ImportWrite(uid) ==
    /\ last'.uid = uid
    /\ \/ last'.op = "importContacts"
       \/ last'.op = "saveContact" /\ last'.arg.source = "import"

\* C21: an entry of the table whose source is manual is the same entry after
\* a saveContact with source import or an importContacts, and such a
\* saveContact on its id returns it; an entry that loadSavedContacts reads
\* without a source is in the table as a manual one.
C21_ManualNeverOverwritten ==
    [][\A uid \in UIDs :
        LET old == savedContactStore[uid].entries
            new == savedContactStore'[uid].entries
        IN
        /\ ImportWrite(uid) =>
            \A i \in 1..Len(old) :
                old[i].source = "manual" =>
                    /\ i <= Len(new) /\ new[i] = old[i]
                    /\ (last'.op = "saveContact" /\ last'.arg.jid = old[i].id)
                            => last'.result = old[i]
        /\ (last'.op = "initSessionResume" /\ last'.uid = uid
            /\ disk[uid].saved.present) =>
                \A i \in 1..Len(disk[uid].saved.raw.contacts) :
                    LET c == disk[uid].saved.raw.contacts[i] IN
                    ~Truthy(c.source) =>
                        /\ MapHas(new, c.id)
                        /\ MapGet(new, c.id).source = "manual"]_vars

\* an import of another name for the id of a loaded entry without source
\* has left the entry as it was loaded
C21_Witness ==
    \E uid \in UIDs :
        /\ last.op = "importContacts" /\ last.uid = uid
        /\ last.arg = <<[name |-> " Ann Lee ", phone |-> "+1 (234) 567"]>>
        /\ last.result.manualPreserved = 1
        /\ savedContactStore[uid].entries =
                <<SavedContact("1234567@s.whatsapp.net", "Ann", "manual", FALSE)>>

\* C22: importContacts counts every entry once: invalid when the name is
\* blank or the phone has fewer than 7 digits, else skipped when the id has
\* a manual entry (then manualPreserved too) or an import entry of the same
\* name, else upserted; upserted + skipped + invalid is the number of
\* entries, manualPreserved <= skipped, and an entry counted skipped or
\* invalid leaves the table as it was.
C22_ImportClassifies ==
    [][\A uid \in UIDs :
        LET old == savedStoreOf(savedContactStore[uid])
            stats == last'.result
        IN
        /\ (last'.op = "importContacts" /\ last'.uid = uid) =>
            /\ stats.upserted + stats.skipped + stats.invalid = Len(last'.arg)
            /\ stats.manualPreserved <= stats.skipped
            /\ stats.upserted = 0 => savedContactStore'[uid].entries = old
        /\ \A e \in ImportEntries :
            LET r == importContacts(savedContactStore[uid], <<e>>)
                digits == keepChars(e.phone, Digits)
                jid == digits \o "@s.whatsapp.net"
                invalid == trim(e.name) = "" \/ Len(digits) < 7
                manual == ~invalid /\ MapHas(old, jid)
                            /\ MapGet(old, jid).source = "manual"
                same == ~invalid /\ MapHas(old, jid)
                            /\ MapGet(old, jid).source = "import"
                            /\ MapGet(old, jid).name = trim(e.name)
                B(b) == IF b THEN 1 ELSE 0
            IN /\ r.result = [invalid |-> B(invalid), skipped |-> B(manual \/ same),
                              manualPreserved |-> B(manual),
                              upserted |-> B(~invalid /\ ~manual /\ ~same)]
               /\ (invalid \/ manual \/ same) => r.store.entries = old]_vars

\* an import of the same entry twice: upserted once, skipped once
C22_Witness ==
    \E uid \in UIDs :
        /\ last.op = "importContacts" /\ last.uid = uid
        /\ Len(last.arg) = 2 /\ last.arg[1] = last.arg[2]
        /\ last.result = [upserted |-> 1, skipped |-> 1, invalid |-> 0,
                          manualPreserved |-> 0]

\* ------------------------------------------------------------------------
\* Claims on the matcher (SpecMatch)
\* ------------------------------------------------------------------------
\* the scored name fields of the eligible contacts of a map
Candidates(map, query) ==
    {[jid |-> map[i].id, source |-> Field(map[i], "source"),
      score |-> scoreVariant(query, getNameVariants(map[i])[k])] :
        <<i, k>> \in {x \in (1..Len(map)) \X (1..3) :
                        /\ endsWith(map[x[1]].id, "@s.whatsapp.net")
                        /\ x[2] <= Len(getNameVariants(map[x[1]]))}}
TopScore(cands) ==
    IF cands = {} THEN 0 ELSE CHOOSE m \in {c.score : c \in cands} :
                                \A c \in cands : c.score <= m
\* the last step matched a name that does not normalize to ""
Matched(uid) ==
    last.op = "findContact" /\ last.uid = uid /\ normalize(last.arg.name) # ""

\* C23: when a saved contact scores 85 or more for the name, findContact
\* returns a saved contact, whatever the learned directory holds.
C23_SavedTakePriority ==
    \A uid \in UIDs :
        Matched(uid) =>
            LET saved == Candidates(savedContactStore[uid].entries,
                                    normalize(last.arg.name))
            IN TopScore(saved) >= SCORE_FIRST_NAME =>
                /\ last.result.jid # None
                /\ MapHas(savedContactStore[uid].entries, last.result.jid)

\* the saved "Ann Lee" is returned for "ann" although the directory has an
\* exact match
C23_Witness ==
    \E uid \in UIDs :
        /\ last.op = "findContact" /\ last.uid = uid
        /\ last.arg.name = "ann"
        /\ last.arg.contacts =
                <<[id |-> "j1@s.whatsapp.net", name |-> "Ann", notify |-> None]>>
        /\ last.result.displayName = "Ann Lee"

\* C24: when no saved contact reaches 85, findContact returns a candidate
\* of the highest score of both sources, a saved one unless the directory
\* scores strictly higher, and none exactly when that score is zero (or the
\* name normalizes to "").
C24_BestOverBothSources ==
    \A uid \in UIDs :
        /\ (last.op = "findContact" /\ last.uid = uid /\ normalize(last.arg.name) = "")
                => last.result = NoMatch
        /\ Matched(uid) =>
            LET q == normalize(last.arg.name)
                saved == Candidates(savedContactStore[uid].entries, q)
                learned == Candidates(last.arg.contacts, q)
                m == TopScore(saved \cup learned)
            IN TopScore(saved) < SCORE_FIRST_NAME =>
                /\ last.result = NoMatch <=> m = 0
                /\ m > 0 =>
                    /\ \E c \in saved \cup learned :
                            c.score = m /\ c.jid = last.result.jid
                    /\ TopScore(saved) = m =>
                            \E c \in saved : c.score = m /\ c.jid = last.result.jid

\* the saved "Ann" and the directory's "Ann" both start with "an": the
\* saved one is returned
C24_Witness ==
    \E uid \in UIDs :
        /\ last.op = "findContact" /\ last.uid = uid
        /\ last.arg.name = "an"
        /\ last.arg.contacts =
                <<[id |-> "j1@s.whatsapp.net", name |-> "Ann", notify |-> None]>>
        /\ last.result.jid \in SavedJids
        /\ last.result.displayName = "Ann"

\* C25: the jid findContact returns ends in @s.whatsapp.net.
C25_OnlyCanonicalIds ==
    \A uid \in UIDs :
        (last.op = "findContact" /\ last.uid = uid) =>
            \/ last.result = NoMatch
            \/ endsWith(last.result.jid, "@s.whatsapp.net")

\* nothing is returned for "ann" from a directory whose only entries named
\* Ann are a linked id and the status broadcast
C25_Witness ==
    \E uid \in UIDs :
        /\ last.op = "findContact" /\ last.uid = uid
        /\ last.arg.name = "ann"
        /\ Len(last.arg.contacts) = 2
        /\ last.arg.contacts[1].id = "l1@lid"
        /\ last.arg.contacts[2].id = Broadcast
        /\ savedContactStore[uid].entries = <<>>
        /\ last.result = NoMatch

\* C26: when a manual and an import candidate both have the best score,
\* findContact returns a manual one.
C26_ManualWinsTies ==
    \A uid \in UIDs :
        Matched(uid) =>
            LET q == normalize(last.arg.name)
                cands == Candidates(savedContactStore[uid].entries, q)
                            \cup Candidates(last.arg.contacts, q)
                m == TopScore(cands)
                top(source) == {c \in cands : c.score = m /\ c.source = source}
            IN (m > 0 /\ top("manual") # {} /\ top("import") # {}) =>
                \E c \in top("manual") : c.jid = last.result.jid

\* ------------------------------------------------------------------------
\* C27: waitForContacts stays suspended only while fewer than `retries`
\* delays have started and only after a check that found the directory
\* empty; it returns a boolean after at most `retries` delays, true exactly
\* when the check it returns from finds the directory non-empty, and false
\* only from the check after the last delay
C27_WaitIsBounded ==
    [][\A uid \in UIDs :
        /\ \A c \in calls'[uid] : c.pc = "delay" => c.i < c.retries
        /\ \A c \in calls'[uid] \ calls[uid] : c.pc = "delay" => ~hasContacts(uid)
        /\ (last'.op = "waitForContacts" /\ last'.uid = uid) =>
              /\ last'.result \in BOOLEAN
              /\ last'.delay <= last'.arg
              /\ last'.result = hasContacts(uid)
              /\ ~last'.result => last'.delay = last'.arg]_vars

\* a wait that found the directory filled after a delay
C27_Witness ==
    /\ last.op = "waitForContacts"
    /\ last.result = TRUE
    /\ last.delay >= 1

\* ------------------------------------------------------------------------
\* a tool call that names a contact, as the observer records it
Addressed(l) ==
    /\ l.op \in Routes \cup {"tool.sendMessage", "tool.delay"}
    /\ l.op = "set_reminder" => l.arg.contact_name # None

\* the directory of the uid holds a contact the name matches
Matches(uid, name) ==
    \E contacts \in Iterations(contactStore[uid].entries) :
        findContact(contacts, name, <<>>) # NoMatch

\* the checks of a contact-addressed tool call up to the match, in order
ChecksInOrder(uid, l, cs, cs1) ==
    /\ l.op \in Routes => l.code \in {200, 400, 401, 404, 500}
    /\ (l.op \in Routes /\ validate(l.op, l.arg) # None) => l.code = 400
    /\ l.code = 400 => validate(l.op, l.arg) # None
    /\ (l.op \in Routes /\ cs \subseteq cs1 /\ validate(l.op, l.arg) = None
            /\ ~isConnected(uid)) => l.code = 401
    /\ l.code = 401 =>
            validate(l.op, l.arg) = None /\ ~isConnected(uid) /\ cs \subseteq cs1
    /\ (l.code = 500 /\ l.write = None) =>
            /\ ~hasContacts(uid)
            /\ \E c \in cs \ cs1 : c.pc = "delay" /\ c.i + 1 = c.retries
    /\ l.code = 404 => hasContacts(uid) /\ ~Matches(uid, l.arg.contact_name)
    /\ (l.op = "tool.sendMessage" \/ l.write = "NotConnected"
            \/ (l.op = "set_reminder" /\ l.code = 200)) =>
            hasContacts(uid) /\ Matches(uid, l.arg.contact_name)

C30_FiresAtFirstDueTick ==
    /\ \A s \in ledger.fired : s.at >= s.fireAt
    /\ \A id \in ledger.owed :
            \/ \E s \in ledger.fired : s.id = id
            \/ \E t \in ticks.running : \E i \in 1..Len(t.rest) : t.rest[i].id = id
\* ------------------------------------------------------------------------
\* C31: after a migration, whatever the order of the old file's entries,
\* every entry keyed by a linked id whose mapping is known is gone, and the
\* canonical entry carries each name field of it that the old canonical
\* entry lacked
C31_MigrationMergesLinkedIds ==
    [][last'.op = "migrate" =>
        LET old == last'.arg
            new == last'.result.contacts
        IN \A i, j \in 1..Len(old) :
            (endsWith(old[i].id, "@lid") /\ old[j].lid = old[i].id
                    /\ endsWith(old[j].id, "@s.whatsapp.net")) =>
                /\ ~MapHas(new, old[i].id)
                /\ MapHas(new, old[j].id)
                /\ \A f \in {"name", "notify", "verifiedName"} :
                        (Truthy(old[i][f]) /\ ~Truthy(old[j][f])) =>
                            MapGet(new, old[j].id)[f] = old[i][f]]_vars
\* ------------------------------------------------------------------------
\* C32: no contact, history or message handler, and no deferred enrichment
\* pass, ends with an error thrown out of it, also when logoutSession has
\* removed the contact table of its uid
C32_HandlersNeverThrow ==
    last.op \in {"contacts.upsert", "contacts.update", "messages.upsert",
                 "messaging-history.set", "setImmediate"}
        => last.result # "TypeError"
\* ------------------------------------------------------------------------
\* C33: an initSession that finds the contact table of its uid in memory
\* leaves every record of that table as it is: no record is replaced by the
\* one contacts.json holds, also when the last write of the file failed
C33_ReconnectKeepsNewerRecords ==
    [][\A uid \in UIDs :
        (last'.op = "initSessionResume" /\ last'.uid = uid /\ contactStore[uid].present) =>
            \A k \in DOMAIN contactStore[uid].entries :
                contactStore'[uid].entries[k] = contactStore[uid].entries[k]]_vars
\* ------------------------------------------------------------------------
\* the highest tier whose condition the variant satisfies for the query:
\* 6 exact, 5 first name, 4 token overlap, 3 prefix, 2 substring, 1 fuzzy,
\* 0 none
TierOf(query, variant) ==
    LET overlap == tokenOverlap(query, variant)
        maxDist == Max(1, Len(query) \div 4)
    IN IF variant = query THEN 6
       ELSE IF split(variant)[1] = query THEN 5
       ELSE IF 2 * overlap[1] >= overlap[2] THEN 4
       ELSE IF startsWith(variant, query) THEN 3
       ELSE IF includes(variant, query) THEN 2
       ELSE IF distance(query, variant) <= maxDist
                \/ distance(query, split(variant)[1]) <= maxDist THEN 1
       ELSE 0

\* C34: of two name fields scored for the same query, the one that
\* satisfies the condition of a higher tier (exact > first name > token
\* overlap > prefix > substring > fuzzy) never has the lower score
C34_ScoresFollowTiers ==
    \A uid \in UIDs :
        Matched(uid) =>
            LET q == normalize(last.arg.name)
                vs == UNION {Range(getNameVariants(last.arg.contacts[i])) :
                                i \in 1..Len(last.arg.contacts)}
            IN \A v1, v2 \in vs :
                TierOf(q, v1) > TierOf(q, v2) => scoreVariant(q, v1) >= scoreVariant(q, v2)
\* ------------------------------------------------------------------------
\* C35: in every reachable state a session object with connected = true has
\* no pending code (qr undefined), the session in the map and the session
\* objects of superseded sockets alike
C35_ConnectedHasNoQr ==
    \A uid \in UIDs :
        /\ sessions[uid].connected => sessions[uid].qr = None
        /\ \A o \in BagToSet(orphans[uid]) : o.connected => o.qr = None

\* an open has just connected the session in the map, which has no code,
\* next to the session object of a superseded socket that shows a code and
\* is not connected
C35_Witness ==
    \E uid \in UIDs :
        /\ last.op = "open" /\ last.uid = uid
        /\ sessions[uid].connected /\ sessions[uid].qr = None
        /\ \E o \in BagToSet(orphans[uid]) : o.qr # None /\ ~o.connected
\* ------------------------------------------------------------------------
\* C36: a connection update of a superseded socket (one whose session object
\* is no longer the one in the map) leaves the session of the uid in the
\* map as it is, schedules no reconnect, and announces `connected` only
\* when the uid is connected
C36_SupersededSocketIsInert ==
    [][\A uid \in UIDs :
        (/\ last'.op \in {"qr", "open", "close"} /\ last'.uid = uid
         /\ orphans'[uid] # orphans[uid]) =>
            /\ sessions'[uid] = sessions[uid]
            /\ last'.op = "close" => last'.result # "scheduled"
            /\ last'.op = "open" => isConnected(uid)]_vars
\* ------------------------------------------------------------------------
\* C37: once logoutSession(uid) has completed and no connect has been
\* requested since, the session map has no entry for the uid, also when an
\* initSession that started before the logout is still suspended
C37_LoggedOutStaysOut ==
    [][\A uid \in UIDs :
        (abandoned[uid] = "logout" /\ sessions[uid] = NoSession) =>
            sessions'[uid] = NoSession]_vars
\* ------------------------------------------------------------------------
\* C38: when logoutSession(uid) has completed, neither the contact table
\* nor the linked-id map of the uid holds an entry
C38_LogoutEmptiesDirectory ==
    [][\A uid \in UIDs :
        (last'.op = "logout" /\ last'.uid = uid) =>
            /\ contactStore'[uid].entries = Empty
            /\ lidToJid'[uid].entries = Empty]_vars
\* ------------------------------------------------------------------------
\* C39: a reminder that fireDueReminders hands to the socket has not been
\* handed to it before, whatever the interleaving of the ticks, also when a
\* tick starts while an earlier one awaits a send
C39_FiresAtMostOnce ==
    [][last'.op = "fireDueReminders" =>
        \A id \in last'.result : id \notin {f.id : f \in ledger.fired}]_vars
\* ------------------------------------------------------------------------
\* the uid the two middleware checks of a request were made on
Validated(req) == IF Truthy(req.query) THEN req.query ELSE req.uid

\* C40: a tool route that the middleware has let through acts on the uid
\* the middleware checked, also when the query string and the body of the
\* request carry different uids
C40_HandlerUsesValidatedUid ==
    [][(last'.op \in Routes /\ last' # last) => last'.uid = Validated(last'.arg)]_vars

====
